---- MODULE Spec2Model ----
(***************************************************************************)
(* lithe-middleware (src/src/main.js): the pipeline builder, its           *)
(* Modification Resolver (modify) and its Invocation Engine (the request   *)
(* handler and invoke), with the plugin notifications.                     *)
(*                                                                         *)
(* Objects.  A middleware is a function or a [name, function] pair.  Both  *)
(* are objects of a heap, keyed by an object id: a list of middlewares is  *)
(* a sequence of ids, so that two lists can share one pair object, as the  *)
(* shallow copy made by modify does.  A heap cell is                       *)
(*    [pair |-> is it a 2-element array, name |-> its [0],                 *)
(*     slotFn |-> is its [1] a function, h |-> the handler it runs]        *)
(* and a plain function is a cell with pair = FALSE.                       *)
(*                                                                         *)
(* Values.  A payload is [data |-> a sequence of tags, frozen |-> whether  *)
(* it went through freeze]: the handler tagged h maps x to x with h        *)
(* appended, as the test middlewares append to a string.                   *)
(***************************************************************************)
EXTENDS Integers, Sequences, FiniteSets, TLC

VARIABLES
    base,          \* the pipeline's stored middleware list (object ids)
    plugins,       \* the plugin list of the builder options
    heap,          \* object id -> cell: the middleware objects
    heap0,         \* the heap as it was when the pipeline was constructed
    nextId,        \* how many ids the identity generator has handed out
    nreq,          \* how many times a request handler was called
    pc,            \* where the current request handler call stands
    rid,           \* the request id of the current pipeline(modifications) call
    mods,          \* the modifications of the current pipeline(modifications) call
    input,         \* the caller's input of the current request
    output,        \* the request handler's `output`
    sequence,      \* the request handler's `sequence` (what modify returned, shifted)
    middleware,    \* the request handler's cursor `middleware` (<<>> when undefined)
    threw,         \* whether the try block of the request handler threw
    requestError,  \* the request handler's `requestError`
    result,        \* the settled promise of the request handler
    events,        \* the events delivered to plugins during the current request
    calls,         \* the handler invocations of the current request, in order
    catches,       \* how often a middleware's own catch block was entered
    mIn,           \* the arguments of the last modify call: [heap, list, mods]
    mOut,          \* what that modify call returned: [list, heap, threw, error]
    pipelineName,  \* the name of the pipeline whose request is running
    parent,        \* options.parent of that pipeline: the next it was connected to
    second,        \* the middlewares of the pipeline a linking middleware connects
    outer,         \* the request that awaits the connected one, while it runs
    parked,        \* the other of two concurrent requests, while this one runs
    flight         \* the invocation the running request is in the middle of

vars == <<base, plugins, heap, heap0, nextId, nreq, pc, rid, mods, input, output,
          sequence, middleware, threw, requestError, result, events, calls,
          catches, mIn, mOut, pipelineName, parent, second, outer, parked, flight>>

(* What the actions of a request on its own pipeline leave alone. *)
connection == <<pipelineName, parent, second, outer>>

(* What the actions of a request that runs from await to await without     *)
(* another request in between leave alone.                                 *)
concurrency == <<parked, flight>>

----------------------------------------------------------------------------
(* Bounds of the model. *)

MaxBase == 3

MaxRequests == 2

MaxChain == 4

MaxPlugins == 3

MaxOuter == 2

MaxInner == 2

MaxFrozen == 2

MaxConcurrent == 2

MaxList == 2

MaxMods == 3

MaxGraph == 3

----------------------------------------------------------------------------
(* JavaScript's undefined, where it is a name, an id or a missing field. *)
undefined == "undefined"

Range(s) == {s[i] : i \in DOMAIN s}

(* Array.prototype.splice(k, 0, x) with a 0-based k, clamped to the length. *)
SpliceIn(list, k, x) ==
    LET at == IF k > Len(list) THEN Len(list) ELSE k
    IN  SubSeq(list, 1, at) \o <<x>> \o SubSeq(list, at + 1, Len(list))

(* A splice that takes two entries out. *)
SpliceOutTwo(list, k) ==
    SubSeq(list, 1, k) \o SubSeq(list, k + 3, Len(list))

(* Array.prototype.splice(k, 1) with a 0-based k. *)
SpliceOut(list, k) ==
    SubSeq(list, 1, k) \o SubSeq(list, k + 2, Len(list))

----------------------------------------------------------------------------
(* Middleware objects. *)

FnCell(h) == [pair |-> FALSE, name |-> undefined, slotFn |-> TRUE, h |-> h]

PairCell(name, h) == [pair |-> TRUE, name |-> name, slotFn |-> TRUE, h |-> h]

isNamed(hp, item) == hp[item].pair /\ hp[item].slotFn

(* nameOf applied to an entry of a middleware list. *)
nameOf(hp, item) == IF isNamed(hp, item) THEN hp[item].name ELSE undefined

----------------------------------------------------------------------------
(* Modifications.  One modification is                                     *)
(*   [kind |-> "bare",  mw |-> id]                         a middleware    *)
(*   [kind |-> "rel",   mw |-> id, action, ref]            [mw, action, ref]*)
(*   [kind |-> "skip",  ref]                               ['skip', ref]   *)
(* with the unused fields held at 0 and undefined.                         *)

Bare(mw) == [kind |-> "bare", mw |-> mw, action |-> undefined, ref |-> undefined]

Rel(mw, action, ref) == [kind |-> "rel", mw |-> mw, action |-> action, ref |-> ref]

Skip(ref) == [kind |-> "skip", mw |-> 0, action |-> undefined, ref |-> ref]

isRelative(m) == m.kind = "rel"

(* nameOf applied to a modification. *)
nameOfMod(hp, m) ==
    IF m.kind = "skip" THEN undefined ELSE nameOf(hp, m.mw)

(* modification[1]: the action of a relative modification, the referenced  *)
(* name of a skip, a function or undefined for a bare middleware.          *)
typeField(m) ==
    CASE m.kind = "rel" -> m.action
      [] m.kind = "skip" -> m.ref
      [] OTHER -> "function"

(* modification[2] *)
refField(m) == IF m.kind = "rel" THEN m.ref ELSE undefined

GraphTypes == {"before", "after", "skip", "replace"}

Lookup(graph, k) == IF k \in DOMAIN graph THEN graph[k] ELSE <<>>

Put(graph, k, v) == [x \in DOMAIN graph \cup {k} |-> IF x = k THEN v ELSE graph[x]]

(* A turn that records nothing. *)
GraphStepForgetful(hp, graph, m) == graph

(* One turn of the first loop of modify. *)
GraphStep(hp, graph, m) ==
    IF typeField(m) \in GraphTypes
    THEN LET ref    == refField(m)
             name   == nameOfMod(hp, m)
             pushed == Put(graph, ref, Append(Lookup(graph, ref), name))
         IN  Put(pushed, ref, pushed[ref] \o Lookup(pushed, name))
    ELSE graph

RECURSIVE BuildGraph(_, _, _)
BuildGraph(hp, graph, ms) ==
    IF ms = <<>> THEN graph
    ELSE BuildGraph(hp, GraphStep(hp, graph, Head(ms)), Tail(ms))

(* weightOf recurses without end on a cyclic graph: the call stack         *)
(* overflows.  A path longer than the number of keys repeats a key, so     *)
(* the recursion is cut there and reported as Diverges.                    *)
Diverges == -1

RECURSIVE weightOf(_, _, _), reduceWeights(_, _, _, _)
(* graph[x].reduce((sum, ref) => sum + weightOf(ref), sum) over refs. *)
reduceWeights(graph, refs, sum, fuel) ==
    IF refs = <<>> THEN sum
    ELSE LET w == weightOf(graph, Head(refs), fuel)
         IN  IF w = Diverges THEN Diverges
             ELSE reduceWeights(graph, Tail(refs), sum + w, fuel)

weightOf(graph, x, fuel) ==
    IF x \notin DOMAIN graph THEN 0
    ELSE IF fuel = 0 THEN Diverges
    ELSE reduceWeights(graph, graph[x], Len(graph[x]), fuel - 1)

(* The second loop of modify: weightMap[nameOf(modification)] for the      *)
(* modifications from position i on.                                       *)
RECURSIVE WeightsFrom(_, _, _, _)
WeightsFrom(hp, graph, ms, i) ==
    IF i > Len(ms) THEN <<>>
    ELSE <<weightOf(graph, nameOfMod(hp, ms[i]), Cardinality(DOMAIN graph) + 1)>>
            \o WeightsFrom(hp, graph, ms, i + 1)

Weights(hp, ms) == WeightsFrom(hp, BuildGraph(hp, <<>>, ms), ms, 1)

(* A comparator that forgets the weights and looks at the positions only. *)
compareByPosition(a, b) == b.pos - a.pos

(* The comparator handed to Array.prototype.sort; a and b are              *)
(* [w |-> weightMap[name], pos |-> requestLevelList.indexOf(modification)].*)
compare(a, b) ==
    LET x == IF a.w = b.w THEN a.pos ELSE a.w
        y == IF a.w = b.w THEN b.pos ELSE b.w
    IN  y - x

(* Array.prototype.sort is a stable sort: e goes before the first element  *)
(* the comparator puts after it.                                           *)
InsertSorted(sorted, e) ==
    LET after == {i \in DOMAIN sorted : compare(sorted[i], e) > 0}
        at    == IF after = {} THEN Len(sorted)
                 ELSE (CHOOSE i \in after : \A j \in after : i <= j) - 1
    IN  SpliceIn(sorted, at, e)

RECURSIVE SortFrom(_, _)
SortFrom(sorted, rest) ==
    IF rest = <<>> THEN sorted
    ELSE SortFrom(InsertSorted(sorted, Head(rest)), Tail(rest))

(* requestLevelList.slice(0).sort(...): the positions of the modifications *)
(* in the order in which they are applied.                                 *)
RECURSIVE KeysFrom(_, _)
KeysFrom(ws, i) ==
    IF i > Len(ws) THEN <<>>
    ELSE <<[w |-> ws[i], pos |-> i - 1]>> \o KeysFrom(ws, i + 1)

RECURSIVE Positions(_)
Positions(done) ==
    IF done = <<>> THEN <<>> ELSE <<Head(done).pos + 1>> \o Positions(Tail(done))

SortedOrder(hp, ms) == Positions(SortFrom(<<>>, KeysFrom(Weights(hp, ms), 1)))

(* Errors.  truthy is what `if (requestError)` tests. *)
NoError == [type |-> undefined, msg |-> "", truthy |-> FALSE]

(* An error that does not say which name was missing. *)
NotFoundUnnamed(name) ==
    [type |-> "Error", msg |-> "could not find middleware", truthy |-> TRUE]

NotFound(name) ==
    [type |-> "Error",
     msg |-> "could not find middleware named: \"" \o name \o "\"",
     truthy |-> TRUE]

StackOverflow ==
    [type |-> "RangeError", msg |-> "Maximum call stack size exceeded", truthy |-> TRUE]

NotAFunction ==
    [type |-> "TypeError", msg |-> "middlewareFn is not a function", truthy |-> TRUE]

(* A search that returns the last entry of that name. *)
findLastIndex(hp, list, ref) ==
    LET hits == {i \in DOMAIN list : nameOf(hp, list[i]) = ref}
    IN  IF hits = {} THEN -1
        ELSE (CHOOSE i \in hits : \A j \in hits : i >= j) - 1

(* result.findIndex(existing => nameOf(existing) === ref), 0-based, -1 if none *)
findIndex(hp, list, ref) ==
    LET hits == {i \in DOMAIN list : nameOf(hp, list[i]) = ref}
    IN  IF hits = {} THEN -1
        ELSE (CHOOSE i \in hits : \A j \in hits : i <= j) - 1

(* result[index][1] = middleware *)
ReplaceSlot(hp, target, mw) ==
    [hp EXCEPT ![target].slotFn = ~hp[mw].pair, ![target].h = hp[mw].h]

(* One turn of the last loop of modify, on st = [list, heap, threw, error]. *)
ApplyOne(st, m, initialLength) ==
    IF st.threw THEN st
    ELSE IF m.kind = "bare"
    THEN [st EXCEPT !.list = SpliceIn(st.list, initialLength, m.mw)]
    ELSE LET index == findIndex(st.heap, st.list, m.ref)
         IN  IF index < 0
             THEN [st EXCEPT !.threw = TRUE, !.error = NotFound(m.ref)]
             ELSE IF isRelative(m)
             THEN IF m.action = "replace"
                  THEN [st EXCEPT !.heap = ReplaceSlot(st.heap, st.list[index + 1], m.mw)]
                  ELSE [st EXCEPT !.list =
                            SpliceIn(st.list,
                                     IF m.action = "before" THEN index ELSE index + 1,
                                     m.mw)]
             ELSE [st EXCEPT !.list = SpliceOut(st.list, index)]

RECURSIVE ApplyAll(_, _, _, _)
ApplyAll(st, ms, order, initialLength) ==
    IF order = <<>> THEN st
    ELSE ApplyAll(ApplyOne(st, ms[Head(order)], initialLength), ms, Tail(order),
                  initialLength)

(* modify(pipelineLevelList, requestLevelList) on the heap hp: the list it *)
(* returns or the error it throws, and the heap it leaves.                 *)
modify(hp, pipelineLevelList, requestLevelList) ==
    LET ws    == Weights(hp, requestLevelList)
        start == [list |-> pipelineLevelList, heap |-> hp,
                  threw |-> FALSE, error |-> NoError]
    IN  IF \E i \in DOMAIN ws : ws[i] = Diverges
        THEN [start EXCEPT !.threw = TRUE, !.error = StackOverflow]
        ELSE ApplyAll(start, requestLevelList,
                      SortedOrder(hp, requestLevelList),
                      Len(pipelineLevelList))

----------------------------------------------------------------------------
(* Payloads, identifiers, events and plugins. *)

Absent == [data |-> <<undefined>>, frozen |-> FALSE]

(* A freezeUp that returns its argument as it came. *)
freezeUpIdle(v) == v

(* freeze(x, true) of immer: freezes x itself, deeply, and returns it. *)
freezeUp(v) == [v EXCEPT !.frozen = TRUE]

(* Where a handler or a plugin writes in a value it was given: a field of  *)
(* the value, a field of a nested object, a field of an array element.     *)
WriteDepths == {"top", "nested", "element"}

(* The TypeError of an assignment to a property of a frozen object, in the *)
(* strict mode of a module.                                                *)
ReadOnly ==
    [type |-> "TypeError", msg |-> "Cannot assign to read only property", truthy |-> TRUE]

(* An assignment at the given depth of v: it throws when v is frozen (the  *)
(* freeze is deep), and is applied to the object itself otherwise.         *)
write(v, depth) ==
    [threw   |-> v.frozen,
     error   |-> IF v.frozen THEN ReadOnly ELSE NoError,
     applied |-> ~v.frozen]

(* What the handler tagged h makes of its input: a new value. *)
Apply(h, v) == [data |-> Append(v.data, h), frozen |-> FALSE]

(* The handler that runs a request on the connected pipeline, and the      *)
(* function () => next that connect appends.                               *)
LinkTag == "connect"

ContinuationTag == "next"

HandlerError(h) == [type |-> "Error", msg |-> "thrown by " \o h, truthy |-> TRUE]

(* The identity generator (randomUUID): every value it hands out is new.   *)
(* The model numbers them, and lets the values of the k-th request start   *)
(* at k * IdStride, more than one request consumes, so that requests with  *)
(* the same history meet in one state.                                     *)
uuid(n) == "u" \o ToString(n)

IdStride == MaxBase + 4

IdBlock(k) == k * IdStride

PipelineName == "test"

(* The options of a pipeline built without a parent. *)
NoParent == [ridKey |-> undefined]

(* parent?.[ridKey] *)
prid == parent.ridKey

Event(type, iid, in, name, out, error, status) ==
    [type |-> type, iid |-> iid, input |-> in, name |-> name, output |-> out,
     error |-> error, pipelineName |-> pipelineName, prid |-> prid, rid |-> rid,
     status |-> status]

(* A freeze of the event object alone. *)
FrozenEventShallow(ev) == ev

(* freeze(event, true) reaches the payloads the event holds. *)
FrozenEvent(ev) ==
    [ev EXCEPT !.input  = IF ev.input = Absent THEN Absent ELSE freezeUp(ev.input),
               !.output = IF ev.output = Absent THEN Absent ELSE freezeUp(ev.output)]

Truthy(name) == name # undefined /\ name # ""

(* The plugins of the model: "observe" has an intercept that returns       *)
(* nothing; "trace" returns, for a successful invocation-end, the output   *)
(* with the middleware's name appended to its traces; "final" returns,    *)
(* for a successful request-end, the output with a mark appended; "mute"   *)
(* has no intercept method.                                                *)
PluginKinds == {"observe", "trace", "final", "mute"}

(* Plugins that write into the event they receive: "scribbleInput" assigns *)
(* to a property inside event.input, "scribbleOutput" inside event.output  *)
(* when the event has one; and "rewrite", which returns for a successful   *)
(* invocation-end a new object it did not freeze.                          *)
WritingKinds == {"scribbleInput", "scribbleOutput"}

HasIntercept(kind) == kind # "mute"

PluginReturns(kind, ev) ==
    \/ kind \in {"trace", "rewrite"} /\ ev.type = "invocation-end" /\ ev.status = "success"
    \/ kind = "final" /\ ev.type = "request-end" /\ ev.status = "success"

FinalMark == "!"

PluginValue(kind, ev) ==
    [data |-> Append(ev.output.data,
                     IF kind = "final" THEN FinalMark ELSE "+" \o ev.name),
     frozen |-> kind # "rewrite"]

(* The payload of the event the plugin writes into, Absent if none. *)
PluginTarget(kind, ev) ==
    CASE kind = "scribbleInput"  -> ev.input
      [] kind = "scribbleOutput" -> ev.output
      [] OTHER                   -> Absent

PluginWrites(kind, ev) == kind \in WritingKinds /\ PluginTarget(kind, ev) # Absent

(* intercept(event) of the plugin throws: its write hit a frozen payload. *)
PluginThrows(kind, ev) ==
    PluginWrites(kind, ev) /\ \E d \in WriteDepths : write(PluginTarget(kind, ev), d).threw

(* What the log keeps of one delivery: the plugin, the event it received,  *)
(* and for a plugin that writes, whether the write changed the payload.    *)
Delivery(pl, i, ev) ==
    IF pl[i] \in WritingKinds
    THEN [plugin |-> i, ev |-> ev,
          wrote |-> PluginWrites(pl[i], ev)
                    /\ \E d \in WriteDepths : write(PluginTarget(pl[i], ev), d).applied]
    ELSE [plugin |-> i, ev |-> ev]

(* A test that lets the invocation events of every middleware through. *)
SuppressedNever(ev) == FALSE


Suppressed(ev) ==
    ev.type \in {"invocation-begin", "invocation-end"} /\ ~Truthy(ev.name)

(* for (const plugin of plugins) await plugin.intercept?.(frozenEvent),    *)
(* from plugin i on: the loop ends at the first intercept that throws.     *)
RECURSIVE Deliver(_, _, _, _)
Deliver(log, pl, i, ev) ==
    IF i > Len(pl) THEN log
    ELSE IF ~HasIntercept(pl[i]) THEN Deliver(log, pl, i + 1, ev)
    ELSE IF PluginThrows(pl[i], ev) THEN Append(log, Delivery(pl, i, ev))
    ELSE Deliver(Append(log, Delivery(pl, i, ev)), pl, i + 1, ev)

(* A notification that reaches no plugin. *)
notifyWithoutOutputSilent(log, pl, ev) == log


(* notifyWithoutOutput: the log of deliveries after it. *)
notifyWithoutOutput(log, pl, ev) ==
    IF Suppressed(ev) THEN log ELSE Deliver(log, pl, 1, FrozenEvent(ev))

(* Whether notifyWithoutOutput throws: an intercept it awaits threw. *)
notifyWithoutOutputThrew(pl, ev) ==
    /\ ~Suppressed(ev)
    /\ \E i \in DOMAIN pl : HasIntercept(pl[i]) /\ PluginThrows(pl[i], FrozenEvent(ev))

(* A loop that hands every plugin the event as it came, and keeps the      *)
(* value of the last plugin that returned one.                             *)
RECURSIVE DeliverOriginalOutput(_, _, _, _, _)
DeliverOriginalOutput(log, pl, i, ev, out) ==
    IF i > Len(pl) THEN [log |-> log, output |-> out, returned |-> TRUE, threw |-> FALSE]
    ELSE LET frozenEvent == FrozenEvent(ev)
         IN  IF ~HasIntercept(pl[i])
             THEN DeliverOriginalOutput(log, pl, i + 1, ev, out)
             ELSE DeliverOriginalOutput(
                      Append(log, Delivery(pl, i, frozenEvent)), pl, i + 1, ev,
                      IF PluginReturns(pl[i], frozenEvent)
                      THEN PluginValue(pl[i], frozenEvent) ELSE out)

(* The loop of notifyWithOutput from plugin i on: each plugin receives     *)
(* freezeUp({ ...event, output }) and output becomes what it returns, or   *)
(* stays when it returns nothing.                                          *)
RECURSIVE DeliverWithOutput(_, _, _, _, _)
DeliverWithOutput(log, pl, i, ev, out) ==
    IF i > Len(pl) THEN [log |-> log, output |-> out, returned |-> TRUE, threw |-> FALSE]
    ELSE LET frozenEvent == FrozenEvent([ev EXCEPT !.output = out])
         IN  IF ~HasIntercept(pl[i])
             THEN DeliverWithOutput(log, pl, i + 1, ev, out)
             ELSE IF PluginThrows(pl[i], frozenEvent)
             THEN [log |-> Append(log, Delivery(pl, i, frozenEvent)), output |-> out,
                   returned |-> FALSE, threw |-> TRUE]
             ELSE DeliverWithOutput(
                      Append(log, Delivery(pl, i, frozenEvent)), pl, i + 1, ev,
                      IF PluginReturns(pl[i], frozenEvent)
                      THEN PluginValue(pl[i], frozenEvent) ELSE out)

(* notifyWithOutput: the log after it and the output it returns; returned  *)
(* is FALSE when it returns undefined, threw is TRUE when it throws what   *)
(* an intercept threw.                                                     *)
notifyWithOutput(log, pl, ev) ==
    IF ev.type = "invocation-end" /\ ~Truthy(ev.name)
    THEN [log |-> log, output |-> Absent, returned |-> FALSE, threw |-> FALSE]
    ELSE DeliverWithOutput(log, pl, 1, ev, ev.output)

----------------------------------------------------------------------------
(* The inputs of the model: pipelines, modification lists, payloads and    *)
(* what a middleware's handler does when it is called.                     *)

BaseName(i) == "b" \o ToString(i)

BaseTag(i) == "h" \o ToString(i)

ModName(j) == "m" \o ToString(j)

ModTag(j) == "g" \o ToString(j)

(* The heap of a pipeline built on n middlewares, those at the positions   *)
(* of named being [name, function] pairs.                                  *)
BaseHeap(n, named) ==
    [i \in 1..n |-> IF i \in named THEN PairCell(BaseName(i), BaseTag(i))
                    ELSE FnCell(BaseTag(i))]

(* The base lists the requests run on: every middleware named, none       *)
(* named, only the first, all but the first.                              *)
BaseNamings(n) == { 1..n, {}, {1} \cap (1..n), 2..n }

(* A modification as the caller writes it, before its middleware object    *)
(* exists: named says whether the middleware is a pair.                    *)
TBare(named) == [kind |-> "bare", named |-> named, action |-> undefined, ref |-> undefined]

TRel(named, action, ref) == [kind |-> "rel", named |-> named, action |-> action, ref |-> ref]

TSkip(ref) == [kind |-> "skip", named |-> FALSE, action |-> undefined, ref |-> ref]

(* The caller's modification list over fresh middleware objects n+1, ...   *)
ModsOf(n, tpl) ==
    [j \in DOMAIN tpl |->
        CASE tpl[j].kind = "bare" -> Bare(n + j)
          [] tpl[j].kind = "rel"  -> Rel(n + j, tpl[j].action, tpl[j].ref)
          [] OTHER                -> Skip(tpl[j].ref)]

ModHeap(n, tpl) ==
    [o \in {n + j : j \in {k \in DOMAIN tpl : tpl[k].kind # "skip"}} |->
        IF tpl[o - n].named THEN PairCell(ModName(o - n), ModTag(o - n))
        ELSE FnCell(ModTag(o - n))]

Missing == "zz"

(* The modification lists the engine is driven with. *)
EngineMods ==
    { <<>>,
      <<TSkip(BaseName(1))>>,
      <<TRel(FALSE, "replace", BaseName(1))>>,
      <<TRel(TRUE, "replace", BaseName(1))>>,
      <<TRel(FALSE, "before", BaseName(1))>>,
      <<TBare(FALSE)>>,
      <<TRel(FALSE, "after", ModName(2)), TBare(TRUE)>>,
      <<TRel(FALSE, "before", Missing)>>,
      <<TRel(TRUE, "after", Missing)>>,
      <<TSkip(Missing)>> }

Inputs == { [data |-> <<>>, frozen |-> FALSE], [data |-> <<"x">>, frozen |-> FALSE] }

PluginLists == { <<"mute", "observe">>, <<"trace", "final">> }

(* What a handler does when called with (next) and then (input):           *)
(*   pass       try { return await next(f(input)) } catch (e) { ...; throw e } *)
(*   stop       return f(input)                                            *)
(*   throw      throw new Error(...)                                       *)
(*   throwFalsy throw undefined                                            *)
(*   nextThrow  await next(f(input)); throw new Error(...)                 *)
(*   twice      await next(f(input)); return await next(f(input))          *)
Behaviours == {"pass", "stop", "throw", "throwFalsy", "nextThrow", "twice"}

NextCalls(beh) ==
    CASE beh \in {"pass", "nextThrow"} -> 1
      [] beh = "twice" -> 2
      [] OTHER -> 0

Throws(beh) == beh \in {"throw", "throwFalsy", "nextThrow"}

Thrown(beh, h) == IF beh = "throwFalsy" THEN NoError ELSE HandlerError(h)

----------------------------------------------------------------------------
(* The Invocation Engine. *)

(* A next that shifts twice, losing one middleware. *)
nextSkipping(cursor) ==
    IF Len(cursor.sequence) < 2
    THEN [sequence |-> <<>>, middleware |-> <<>>]
    ELSE [sequence |-> Tail(Tail(cursor.sequence)),
          middleware |-> <<cursor.sequence[2]>>]

(* A next that reads the head of the sequence and leaves it there. *)
nextPeeking(cursor) ==
    IF cursor.sequence = <<>>
    THEN [sequence |-> <<>>, middleware |-> <<>>]
    ELSE [sequence |-> cursor.sequence, middleware |-> <<Head(cursor.sequence)>>]

(* next: middleware = sequence.shift(); return patch.  The cursor is      *)
(* [sequence, middleware], middleware being <<>> for undefined.            *)
next(cursor) ==
    IF cursor.sequence = <<>>
    THEN [sequence |-> <<>>, middleware |-> <<>>]
    ELSE [sequence |-> Tail(cursor.sequence), middleware |-> <<Head(cursor.sequence)>>]

RECURSIVE nextTimes(_, _)
nextTimes(cursor, k) == IF k = 0 THEN cursor ELSE nextTimes(next(cursor), k - 1)

(* A loop that moves to the following middleware by itself. *)
loopCursorAdvancing(seq, mw) ==
    IF seq = <<>> THEN [sequence |-> <<>>, middleware |-> <<>>]
    ELSE [sequence |-> Tail(seq), middleware |-> <<Head(seq)>>]

(* The loop body before invoke: const current = middleware;                *)
(* middleware = undefined.  The cursor handed to invoke.                   *)
loopCursor(seq, mw) == [sequence |-> seq, middleware |-> <<>>]

(* A next that runs the rest of the chain before it resolves: every        *)
(* earlier handler that called next is still waiting inside it.            *)
suspendedInNextRecursive(cs) ==
    LET waiting == SelectSeq(cs, LAMBDA c : c.ran /\ c.beh \in {"pass", "twice"})
    IN  [i \in DOMAIN waiting |-> waiting[i].h]

(* next resolves with its patch at once (it does not run the rest of the   *)
(* chain), so a handler has returned before the loop calls the following   *)
(* middleware: when a handler fails, no earlier handler is still waiting   *)
(* inside its own call to next.  cs are the calls made so far.             *)
suspendedInNext(cs) == <<>>

(* A catch block that throws a new error made from the one it caught. *)
rethrowWrapped(error) ==
    [type |-> "Error", msg |-> "request failed: " \o error.msg, truthy |-> TRUE]

(* catch (error) { ...; throw error }: what invoke and the request handler *)
(* throw on for the error they caught.                                     *)
rethrow(error) == error

(* An id taken once for the request and used for each of its invocations. *)
invocationIdOfRequest(n) == rid

(* const iid = uuid(), the n-th value the identity generator hands out. *)
invocationId(n) == uuid(n)

(* A ?? that always takes its right-hand side. *)
nullishRight(returned, value, fallback) == fallback

(* value ?? fallback, returned telling whether value is not undefined. *)
nullish(returned, value, fallback) == IF returned THEN value ELSE fallback

(* invoke up to the call of the handler: the iid, the name and the         *)
(* invocation-begin notification.                                          *)
invokeBegin(current, in) ==
    LET iid   == invocationId(nextId + 1)
        name  == nameOf(heap, current)
        begin == Event("invocation-begin", iid, in, name, Absent, NoError, undefined)
    IN  [iid   |-> iid,
         name  |-> name,
         log   |-> notifyWithoutOutput(events, plugins, begin),
         threw |-> notifyWithoutOutputThrew(plugins, begin),
         error |-> IF notifyWithoutOutputThrew(plugins, begin) THEN ReadOnly ELSE NoError]

(* invoke from the settling of the handler on: handled is what the try     *)
(* block did up to there, [threw, error, value], and log the deliveries    *)
(* made so far.  The catch block is entered with what the handler or an    *)
(* intercept threw, and throws it on unless its own notification throws.   *)
invokeEnd(begun, in, handled, log) ==
    LET out     == freezeUp(handled.value)
        told    == notifyWithOutput(log, plugins,
                       Event("invocation-end", begun.iid, in, begun.name, out, NoError,
                             "success"))
        failed  == handled.threw \/ told.threw
        caught  == IF handled.threw THEN handled.error ELSE ReadOnly
        failure == Event("invocation-end", begun.iid, in, begun.name, Absent, caught,
                         "failure")
    IN  [threw  |-> failed,
         error  |-> IF ~failed THEN NoError
                    ELSE IF notifyWithoutOutputThrew(plugins, failure) THEN ReadOnly
                    ELSE rethrow(caught),
         output |-> IF failed THEN in
                    ELSE nullish(told.returned, freezeUp(told.output), out),
         log    |-> IF failed
                    THEN notifyWithoutOutput(IF handled.threw THEN log ELSE told.log,
                                             plugins, failure)
                    ELSE told.log]

(* invoke between the two notifications: middlewareFn(next) and            *)
(* await handler(input), with the handler behaving as beh.  ran tells      *)
(* whether the handler was called, handled is what the try block did, and  *)
(* cursor what the handler's calls of next left.                           *)
invokeHandler(current, cursor, in, beh, begun) ==
    LET cell     == heap[current]
        callable == (~cell.pair \/ cell.slotFn) /\ ~begun.threw
    IN  [ran     |-> callable,
         handled |-> [threw |-> ~callable \/ Throws(beh),
                      error |-> IF begun.threw THEN begun.error
                                ELSE IF callable THEN Thrown(beh, cell.h)
                                ELSE NotAFunction,
                      value |-> Apply(cell.h, in)],
         cursor  |-> IF callable THEN nextTimes(cursor, NextCalls(beh)) ELSE cursor]

(* The record the model keeps of one invocation. *)
callOf(current, in, beh, begun, ran) ==
    [obj |-> current, h |-> heap[current].h, name |-> begun.name,
     input |-> in.data, frozen |-> in.frozen, beh |-> beh,
     ran |-> ran, iid |-> begun.iid, at |-> Len(begun.log)]

(* invoke(current, next, input) with the handler behaving as beh, given    *)
(* the cursor as the loop left it (middleware = undefined).                *)
invoke(current, cursor, in, beh) ==
    LET begun == invokeBegin(current, in)
        done  == invokeHandler(current, cursor, in, beh, begun)
        ended == invokeEnd(begun, in, done.handled, begun.log)
    IN  [call   |-> callOf(current, in, beh, begun, done.ran),
         cursor |-> done.cursor,
         threw  |-> ended.threw,
         error  |-> ended.error,
         output |-> ended.output,
         log    |-> ended.log]

(* A request handler that runs what was resolved before the failure. *)
afterResolveDeferring(r) == IF r.list = <<>> THEN "finally" ELSE "loop"

(* Where the request handler goes after modify returned or threw r: a      *)
(* throw leaves the try block, an empty list returns the input, anything   *)
(* else enters the loop.                                                   *)
afterResolve(r) == IF r.threw \/ r.list = <<>> THEN "finally" ELSE "loop"

Pending == [status |-> "pending", ref |-> "output", value |-> Absent, error |-> NoError]

NoCall == [heap |-> <<>>, list |-> <<>>, mods |-> <<>>]

NoPlan == [list |-> <<>>, heap |-> <<>>, threw |-> FALSE, error |-> NoError]

(* No request is waiting for a connected one. *)
NoOuter == [phase |-> "none"]

(* No other request was started, and no invocation is under way. *)
NoParked == [pc |-> "none"]

NoFlight == [step |-> "none"]

Init ==
    /\ \E n \in 0..MaxBase : \E named \in BaseNamings(n) :
          /\ base = [i \in 1..n |-> i]
          /\ heap = BaseHeap(n, named)
          /\ heap0 = BaseHeap(n, named)
    /\ plugins \in PluginLists
    /\ nextId = 0
    /\ nreq = 0
    /\ pc = "idle"
    /\ rid = undefined
    /\ mods = <<>>
    /\ input = Absent
    /\ output = Absent
    /\ sequence = <<>>
    /\ middleware = <<>>
    /\ threw = FALSE
    /\ requestError = NoError
    /\ result = Pending
    /\ events = <<>>
    /\ calls = <<>>
    /\ catches = <<>>
    /\ mIn = NoCall
    /\ mOut = NoPlan
    /\ pipelineName = PipelineName
    /\ parent = NoParent
    /\ second = <<>>
    /\ outer = NoOuter
    /\ parked = NoParked
    /\ flight = NoFlight

(* The request handler before its try block: the request-begin event, and *)
(* the promise it leaves when that notification throws.                    *)
requestBegin(in) ==
    Event("request-begin", undefined, in, undefined, Absent, NoError, undefined)

Rejected(error) ==
    [status |-> "rejected", ref |-> undefined, value |-> Absent, error |-> error]

beforeTry(in) ==
    IF notifyWithoutOutputThrew(plugins, requestBegin(in)) THEN Rejected(ReadOnly)
    ELSE Pending

(* The request-end events of the finally block, and whether the            *)
(* notification it awaits throws.                                          *)
requestEndFailure ==
    Event("request-end", undefined, input, undefined, Absent, requestError, "failure")

requestEndSuccess ==
    Event("request-end", undefined, input, undefined, output, NoError, "success")

finallyThrew ==
    IF threw /\ requestError.truthy
    THEN notifyWithoutOutputThrew(plugins, requestEndFailure)
    ELSE notifyWithOutput(events, plugins, requestEndSuccess).threw

(* pipeline(modifications): a request handler closure with a rid of its own. *)
CallPipeline(tpl) ==
    /\ pc \in {"idle", "settled"}
    /\ outer = NoOuter
    /\ nreq < MaxRequests
    /\ rid' = uuid(IdBlock(nreq) + 1)
    /\ nextId' = IdBlock(nreq) + 1
    /\ mods' = ModsOf(Len(base), tpl)
    /\ heap' = [o \in DOMAIN base \cup DOMAIN ModHeap(Len(base), tpl) |->
                   IF o \in DOMAIN base THEN heap[o] ELSE ModHeap(Len(base), tpl)[o]]
    /\ pc' = "ready"
    /\ input' = Absent
    /\ output' = Absent
    /\ sequence' = <<>>
    /\ middleware' = <<>>
    /\ threw' = FALSE
    /\ requestError' = NoError
    /\ result' = Pending
    /\ events' = <<>>
    /\ calls' = <<>>
    /\ catches' = <<>>
    /\ mIn' = NoCall
    /\ mOut' = NoPlan
    /\ UNCHANGED <<base, plugins, heap0, nreq, connection, concurrency>>

(* The request handler, up to its try block: request-begin, freezeUp(input). *)
CallRequest(in) ==
    /\ pc \in {"ready", "settled"}
    /\ outer = NoOuter
    /\ nreq < MaxRequests
    /\ nreq' = nreq + 1
    /\ events' = notifyWithoutOutput(<<>>, plugins, requestBegin(in))
    /\ input' = freezeUp(in)
    /\ output' = freezeUp(in)
    /\ sequence' = <<>>
    /\ middleware' = <<>>
    /\ threw' = notifyWithoutOutputThrew(plugins, requestBegin(in))
    /\ requestError' = NoError
    /\ result' = beforeTry(in)
    /\ calls' = <<>>
    /\ catches' = <<>>
    /\ mIn' = NoCall
    /\ mOut' = NoPlan
    /\ nextId' = IdBlock(nreq) + 1
    /\ pc' = IF notifyWithoutOutputThrew(plugins, requestBegin(in)) THEN "settled"
             ELSE "resolve"
    /\ UNCHANGED <<base, plugins, heap, heap0, rid, mods, connection, concurrency>>

(* sequence = modify(middlewares, modifications); the empty case; the first shift. *)
Resolve ==
    /\ pc = "resolve"
    /\ LET r == modify(heap, base, mods)
       IN  /\ mIn' = [heap |-> heap, list |-> base, mods |-> mods]
           /\ mOut' = r
           /\ heap' = r.heap
           /\ threw' = r.threw
           /\ requestError' = rethrow(r.error)
           /\ pc' = afterResolve(r)
           /\ IF afterResolve(r) = "loop"
              THEN /\ middleware' = <<Head(r.list)>>
                   /\ sequence' = Tail(r.list)
              ELSE UNCHANGED <<sequence, middleware>>
           /\ result' = IF ~r.threw /\ r.list = <<>>
                        THEN [Pending EXCEPT !.ref = "input"] ELSE Pending
    /\ UNCHANGED <<base, plugins, heap0, nextId, nreq, rid, mods, input, output,
                   events, calls, catches, connection, concurrency>>

(* One turn of the while loop: output = await invoke(current, next, output). *)
Invoke(beh) ==
    /\ pc = "loop"
    /\ middleware # <<>>
    /\ \/ heap[middleware[1]].h \notin {LinkTag, ContinuationTag}
       \/ invokeBegin(middleware[1], output).threw
    /\ LET r == invoke(middleware[1], loopCursor(sequence, middleware), output, beh)
       IN  /\ nextId' = nextId + 1
           /\ events' = r.log
           /\ calls' = Append(calls, r.call)
           /\ sequence' = r.cursor.sequence
           /\ middleware' = r.cursor.middleware
           /\ threw' = r.threw
           /\ requestError' = rethrow(r.error)
           /\ output' = r.output
           /\ catches' = IF r.threw THEN catches \o suspendedInNext(calls) ELSE catches
           /\ pc' = IF r.threw \/ r.cursor.middleware = <<>> THEN "finally" ELSE "loop"
    /\ UNCHANGED <<base, plugins, heap, heap0, nreq, rid, mods, input, result, mIn, mOut,
                   connection, concurrency>>

(* The finally block and the settling of the handler's promise. *)
Finally ==
    /\ pc = "finally"
    /\ events' =
          IF threw /\ requestError.truthy
          THEN notifyWithoutOutput(events, plugins, requestEndFailure)
          ELSE notifyWithOutput(events, plugins, requestEndSuccess).log
    /\ result' =
          IF finallyThrew THEN Rejected(ReadOnly)
          ELSE IF threw
          THEN [status |-> "rejected", ref |-> undefined, value |-> Absent,
                error |-> requestError]
          ELSE [status |-> "resolved", ref |-> result.ref,
                value |-> IF result.ref = "input" THEN input ELSE output,
                error |-> NoError]
    /\ pc' = "settled"
    /\ UNCHANGED <<base, plugins, heap, heap0, nextId, nreq, rid, mods, input, output,
                   sequence, middleware, threw, requestError, calls, catches, mIn, mOut,
                   connection, concurrency>>

Next ==
    \/ \E tpl \in EngineMods : CallPipeline(tpl)
    \/ \E in \in Inputs : CallRequest(in)
    \/ Resolve
    \/ \E beh \in Behaviours : Invoke(beh)
    \/ Finally

Spec == Init /\ [][Next]_vars

----------------------------------------------------------------------------
(* Properties of the engine. *)

Last(s) == s[Len(s)]

Failed(c) == ~c.ran \/ Throws(c.beh)

(* The events plugin p received, in order. *)
PluginEvents(p) ==
    LET mine == SelectSeq(events, LAMBDA d : d.plugin = p)
    IN  [i \in DOMAIN mine |-> mine[i].ev]

Interceptors == {p \in DOMAIN plugins : HasIntercept(plugins[p])}

(* The tags of the first k handlers of the base list, as it is now. *)
BaseTags(k) == [i \in 1..k |-> heap[base[i]].h]

(* C1: after any sequence of requests the base list has its length and     *)
(* every entry its name and its handler as at construction, and a request  *)
(* without modifications runs the handlers the pipeline was built with.    *)
C1_BaseListUnchanged ==
    /\ Len(base) = Cardinality(DOMAIN heap0)
    /\ \A i \in DOMAIN base : heap[base[i]] = heap0[base[i]]
    /\ mods = <<>> => \A k \in DOMAIN calls : calls[k].h = heap0[calls[k].obj].h

(* C2: without modifications, when every handler calls next once and       *)
(* returns its result (and no plugin replaces an output), the base         *)
(* middlewares are invoked once each in base-list order, each on the       *)
(* output of the one before, and the request resolves to the composition   *)
(* of the handlers, left to right, applied to the input.                   *)
C2_AllPass ==
    /\ mods = <<>>
    /\ "trace" \notin Range(plugins)
    /\ \A k \in DOMAIN calls : calls[k].ran /\ calls[k].beh = "pass"

C2_OrderPreservation ==
    (pc \in {"loop", "finally", "settled"} /\ C2_AllPass) =>
        /\ Len(calls) <= Len(base)
        /\ \A k \in DOMAIN calls :
              /\ calls[k].obj = base[k]
              /\ calls[k].input = input.data \o BaseTags(k - 1)
        /\ pc \in {"finally", "settled"} => Len(calls) = Len(base)
        /\ pc = "settled" =>
              /\ result.status = "resolved"
              /\ result.value.data = input.data \o BaseTags(Len(base))

C2_Witness ==
    /\ pc = "settled"
    /\ C2_AllPass
    /\ Len(base) = 3
    /\ Len(calls) = 3
    /\ result.status = "resolved"
    /\ result.value.data = <<"x", BaseTag(1), BaseTag(2), BaseTag(3)>>

Stopped(c) == c.ran /\ c.beh = "stop"

AfterPlugins(c) ==
    IF Truthy(c.name) /\ "trace" \in Range(plugins)
    THEN Append(Append(c.input, c.h), "+" \o c.name)
    ELSE Append(c.input, c.h)

C4_ShortCircuit ==
    \A k \in DOMAIN calls : Stopped(calls[k]) =>
        /\ k = Len(calls)
        /\ pc \in {"finally", "settled"}
        /\ pc = "settled" =>
              /\ result.status = "resolved"
              /\ result.value.data = AfterPlugins(calls[k])
              /\ \A p \in Interceptors :
                    /\ Last(PluginEvents(p)).type = "request-end"
                    /\ Last(PluginEvents(p)).status = "success"

C4_Witness ==
    /\ pc = "settled"
    /\ Len(calls) = 2
    /\ Stopped(calls[2])
    /\ Truthy(calls[2].name)
    /\ "trace" \in Range(plugins)
    /\ sequence # <<>>
    /\ result.status = "resolved"

(* C7: when resolution fails no middleware handler is invoked and no       *)
(* invocation-begin or invocation-end event is delivered for that request, *)
(* which rejects.                                                          *)
C7_ResolutionFailsFirst ==
    mOut.threw =>
        /\ calls = <<>>
        /\ \A i \in DOMAIN events :
              events[i].ev.type \notin {"invocation-begin", "invocation-end"}
        /\ pc \in {"finally", "settled"}
        /\ pc = "settled" => result.status = "rejected"

C7_Witness ==
    /\ pc = "settled"
    /\ mOut.threw
    /\ Len(base) >= 2
    /\ calls = <<>>
    /\ result.status = "rejected"

(* C8: when a handler throws, no later middleware of the resolved list is  *)
(* invoked and the request rejects with the very value that was thrown.    *)
C8_ErrorUnchanged ==
    \A k \in DOMAIN calls : (calls[k].ran /\ Throws(calls[k].beh)) =>
        /\ k = Len(calls)
        /\ pc \in {"finally", "settled"}
        /\ pc = "settled" =>
              /\ result.status = "rejected"
              /\ result.error = Thrown(calls[k].beh, calls[k].h)

C8_Witness ==
    /\ pc = "settled"
    /\ Len(calls) = 2
    /\ calls[2].beh = "nextThrow"
    /\ Len(mOut.list) = 3
    /\ result.status = "rejected"
    /\ result.error = HandlerError(calls[2].h)

(* C6: when a before, after, replace or skip modification is applied and   *)
(* the name it references is not in the working list at that moment, the   *)
(* request rejects with the error whose message is                         *)
(* could not find middleware named: "<name>", with exactly that name.      *)
(* WorkingBefore(k) is the working list when the k-th modification, in the *)
(* order of application, is reached.                                       *)
WorkingBefore(k) ==
    ApplyAll([list |-> mIn.list, heap |-> mIn.heap, threw |-> FALSE, error |-> NoError],
             mIn.mods, SubSeq(SortedOrder(mIn.heap, mIn.mods), 1, k - 1),
             Len(mIn.list))

MissesItsReference(k) ==
    LET m  == mIn.mods[SortedOrder(mIn.heap, mIn.mods)[k]]
        st == WorkingBefore(k)
    IN  /\ m.kind \in {"rel", "skip"}
        /\ ~st.threw
        /\ m.ref \notin {nameOf(st.heap, st.list[i]) : i \in DOMAIN st.list}

ReferenceAt(k) == mIn.mods[SortedOrder(mIn.heap, mIn.mods)[k]].ref

C6_MissingReferenceRejects ==
    (pc = "settled" /\ mOut.error # StackOverflow) =>
        \A k \in DOMAIN mIn.mods : MissesItsReference(k) =>
            /\ result.status = "rejected"
            /\ result.error.type = "Error"
            /\ result.error.msg =
                  "could not find middleware named: \"" \o ReferenceAt(k) \o "\""

C6_Witness ==
    /\ pc = "settled"
    /\ Len(base) >= 2
    /\ \E k \in DOMAIN mIn.mods :
          /\ MissesItsReference(k)
          /\ mIn.mods[k].kind = "skip"
          /\ ReferenceAt(k) = Missing
    /\ result.status = "rejected"
    /\ result.error.msg = "could not find middleware named: \"zz\""

(* C9: when the handler of a named middleware fails, every plugin receives *)
(* invocation-end with status failure and the error, with the iid of its   *)
(* invocation-begin, and then request-end with status failure and the same *)
(* error, both before the promise rejects.                                 *)
C9_FailureEvents ==
    (result.status = "rejected" /\ calls # <<>> /\ Last(calls).ran
        /\ Throws(Last(calls).beh) /\ Truthy(Last(calls).name)) =>
        \A p \in Interceptors :
            LET es  == PluginEvents(p)
                n   == Len(es)
                c   == Last(calls)
                err == Thrown(c.beh, c.h)
            IN  /\ n >= 4
                /\ es[n - 2].type = "invocation-begin"
                /\ es[n - 2].iid = c.iid
                /\ es[n - 1].type = "invocation-end"
                /\ es[n - 1].status = "failure"
                /\ es[n - 1].error = err
                /\ es[n - 1].iid = c.iid
                /\ es[n].type = "request-end"
                /\ es[n].status = "failure"
                /\ es[n].error = err

(* C10: every plugin receives exactly one request-begin, before every      *)
(* other event of the request, and exactly one request-end, after every    *)
(* other one; request-end carries status success with the output of a      *)
(* request that resolves and status failure with the error of one that     *)
(* rejects; both carry the same rid, prid, pipeline name and the request's *)
(* input.                                                                  *)
CountOf(es, type) == Cardinality({i \in DOMAIN es : es[i].type = type})

C10_RequestEvents ==
    \A p \in Interceptors :
        LET es == PluginEvents(p)
            n  == Len(es)
        IN  /\ pc \in {"resolve", "loop", "finally"} =>
                  /\ n >= 1
                  /\ es[1].type = "request-begin"
                  /\ CountOf(es, "request-begin") = 1
                  /\ CountOf(es, "request-end") = 0
            /\ pc = "settled" =>
                  /\ n >= 2
                  /\ es[1].type = "request-begin"
                  /\ es[n].type = "request-end"
                  /\ CountOf(es, "request-begin") = 1
                  /\ CountOf(es, "request-end") = 1
                  /\ result.status = "resolved" =>
                        /\ es[n].status = "success"
                        /\ es[n].output = result.value
                  /\ result.status = "rejected" =>
                        /\ es[n].status = "failure"
                        /\ es[n].error = result.error
                  /\ \A i \in {1, n} :
                        /\ es[i].rid = rid
                        /\ es[i].prid = prid
                        /\ es[i].pipelineName = PipelineName
                        /\ es[i].input = input

(* C11: a request whose resolved list is empty resolves to the input       *)
(* itself, and the engine has not frozen the input.                        *)
C11_EmptyReturnsInputUnfrozen ==
    (pc = "settled" /\ ~mOut.threw /\ mOut.list = <<>>) =>
        /\ result.status = "resolved"
        /\ result.ref = "input"
        /\ result.value.data = input.data
        /\ ~input.frozen
        /\ ~result.value.frozen

(* C12: for each execution of a named middleware every plugin receives     *)
(* invocation-begin, with the input the middleware is given, before the    *)
(* handler runs, and invocation-end, with status success and the handler's *)
(* output as the plugins before it left it, after the handler returned,    *)
(* both with the same iid, name, rid and prid; the events of successive    *)
(* middlewares alternate begin, end, begin, end: they are never nested.    *)
InvocationEvents(p) ==
    SelectSeq(PluginEvents(p),
              LAMBDA e : e.type \in {"invocation-begin", "invocation-end"})

NamedCalls == SelectSeq(calls, LAMBDA c : Truthy(c.name))

(* data as the plugins 1..q leave it for the middleware called name. *)
RECURSIVE TracedBy(_, _, _)
TracedBy(data, name, q) ==
    IF q = 0 THEN data
    ELSE LET before == TracedBy(data, name, q - 1)
         IN  IF plugins[q] = "trace" THEN Append(before, "+" \o name) ELSE before

(* The positions, in the log of all deliveries, of plugin p's events of    *)
(* the given type for the invocation iid.                                  *)
DeliveredAt(p, type, iid) ==
    {i \in DOMAIN events :
        events[i].plugin = p /\ events[i].ev.type = type /\ events[i].ev.iid = iid}

C12_InvocationEvents ==
    pc \in {"loop", "finally", "settled"} =>
        \A p \in Interceptors :
            LET es == InvocationEvents(p)
            IN  /\ Len(es) = 2 * Len(NamedCalls)
                /\ \A j \in DOMAIN NamedCalls :
                      LET c     == NamedCalls[j]
                          begin == es[2 * j - 1]
                          end   == es[2 * j]
                      IN  /\ begin.type = "invocation-begin"
                          /\ begin.input.data = c.input
                          /\ end.type = "invocation-end"
                          /\ \A e \in {begin, end} :
                                /\ e.iid = c.iid
                                /\ e.name = c.name
                                /\ e.rid = rid
                                /\ e.prid = prid
                          /\ \A i \in DeliveredAt(p, "invocation-begin", c.iid) : i <= c.at
                          /\ \A i \in DeliveredAt(p, "invocation-end", c.iid) : i > c.at
                          /\ ~Failed(c) =>
                                /\ end.status = "success"
                                /\ end.output.data =
                                      TracedBy(Append(c.input, c.h), c.name, p - 1)

C12_Witness ==
    /\ pc = "settled"
    /\ result.status = "resolved"
    /\ plugins = <<"trace", "final">>
    /\ Len(NamedCalls) = 3
    /\ \A k \in DOMAIN calls : calls[k].beh = "pass"
    /\ Len(InvocationEvents(2)) = 6
    /\ InvocationEvents(2)[6].output.data =
          <<"x", BaseTag(1), "+b1", BaseTag(2), "+b2", BaseTag(3), "+b3">>


(* C13: for an anonymous middleware no invocation-begin and no             *)
(* invocation-end, success or failure, reaches any plugin, and its output  *)
(* goes to the next middleware as the handler returned it, while           *)
(* request-begin and request-end of the request are still delivered.       *)
AnonymousCalls == {k \in DOMAIN calls : ~Truthy(calls[k].name)}

C13_AnonymousSuppressed ==
    pc \in {"loop", "finally", "settled"} =>
        /\ \A k \in AnonymousCalls : \A i \in DOMAIN events :
              events[i].ev.type \in {"invocation-begin", "invocation-end"} =>
                  /\ events[i].ev.iid # calls[k].iid
                  /\ Truthy(events[i].ev.name)
        /\ \A k \in AnonymousCalls : (calls[k].ran /\ ~Throws(calls[k].beh)) =>
              /\ k < Len(calls) =>
                    calls[k + 1].input = Append(calls[k].input, calls[k].h)
              /\ (k = Len(calls) /\ pc # "loop") =>
                    output.data = Append(calls[k].input, calls[k].h)
        /\ AnonymousCalls # {} => \A p \in Interceptors :
              /\ PluginEvents(p)[1].type = "request-begin"
              /\ pc = "settled" => Last(PluginEvents(p)).type = "request-end"

C13_Witness ==
    /\ pc = "settled"
    /\ plugins = <<"trace", "final">>
    /\ Len(calls) = 3
    /\ AnonymousCalls = {1}
    /\ \A k \in DOMAIN calls : calls[k].beh = "pass"
    /\ \A p \in Interceptors : Len(InvocationEvents(p)) = 4
    /\ result.status = "resolved"
    /\ result.value.data =
          <<"x", BaseTag(1), BaseTag(2), "+b2", BaseTag(3), "+b3">>


(* C14: the value a plugin returns for a successful invocation-end of a    *)
(* named middleware replaces the middleware's output and is the input of   *)
(* the next middleware; with a plugin that appends the middleware's name   *)
(* to the traces of the output, the traces of the final output are the     *)
(* names of the executed named middlewares, in the order of execution.     *)
TraceMarks == {"+" \o nameOf(heap, o) : o \in DOMAIN heap}

Traces(data) == SelectSeq(data, LAMBDA t : t \in TraceMarks)

ExecutedNames == [j \in DOMAIN NamedCalls |-> "+" \o NamedCalls[j].name]

C14_PluginReplacesOutput ==
    ("trace" \in Range(plugins) /\ pc \in {"loop", "finally", "settled"}) =>
        /\ \A k \in DOMAIN calls : (Truthy(calls[k].name) /\ ~Failed(calls[k])) =>
              LET replaced == TracedBy(Append(calls[k].input, calls[k].h),
                                       calls[k].name, Len(plugins))
              IN  /\ replaced # Append(calls[k].input, calls[k].h)
                  /\ k < Len(calls) => calls[k + 1].input = replaced
                  /\ k = Len(calls) => output.data = replaced
        /\ (pc = "settled" /\ result.status = "resolved") =>
              Traces(result.value.data) = ExecutedNames

C14_Witness ==
    /\ pc = "settled"
    /\ "trace" \in Range(plugins)
    /\ result.status = "resolved"
    /\ Len(base) = 3
    /\ Len(calls) = 2
    /\ calls[1].beh = "twice"
    /\ calls[2].obj = base[3]
    /\ ExecutedNames = <<"+b1", "+b3">>
    /\ Traces(result.value.data) = <<"+b1", "+b3">>

(* C17: every event of one invocation of a request handler carries the     *)
(* same rid, and a second invocation of the same request handler (the      *)
(* closure one pipeline(modifications) call returned) emits events with a  *)
(* rid different from that of the invocation before.                       *)
C17_RidFreshPerInvocation ==
    /\ [](\A i, j \in DOMAIN events : events[i].ev.rid = events[j].ev.rid)
    /\ [][(pc = "settled" /\ pc' = "resolve" /\ events # <<>> /\ events' # <<>>) =>
             events'[1].ev.rid # Last(events).ev.rid]_vars


(* C18: within a request any two middleware executions carry distinct      *)
(* iids, each different from the rid, and the invocation-begin and the     *)
(* invocation-end of one execution carry the same iid.                     *)
C18_IidFreshPerExecution ==
    /\ \A k, l \in DOMAIN calls : k # l => calls[k].iid # calls[l].iid
    /\ \A k \in DOMAIN calls : calls[k].iid # rid
    /\ pc \in {"loop", "finally", "settled"} =>
          \A p \in Interceptors : \A j \in DOMAIN NamedCalls :
              /\ 2 * j <= Len(InvocationEvents(p))
              /\ InvocationEvents(p)[2 * j - 1].type = "invocation-begin"
              /\ InvocationEvents(p)[2 * j].type = "invocation-end"
              /\ InvocationEvents(p)[2 * j - 1].iid = NamedCalls[j].iid
              /\ InvocationEvents(p)[2 * j].iid = NamedCalls[j].iid
              /\ \A i \in 1..(2 * j - 2) :
                    InvocationEvents(p)[i].iid # NamedCalls[j].iid

C18_Witness ==
    /\ pc = "settled"
    /\ nreq = 2
    /\ Len(calls) = 3
    /\ Len(NamedCalls) = 2
    /\ Cardinality({calls[k].iid : k \in DOMAIN calls} \cup {rid}) = 4
    /\ \A p \in Interceptors : Len(InvocationEvents(p)) = 4


----------------------------------------------------------------------------
(* The resolver on its own: modify applied to arguments drawn by          *)
(* InitResolver.  A chain of n modifications is a bare named middleware    *)
(* followed by n - 1 middlewares, each placed before or after the one      *)
(* listed ahead of it; the caller lists them in any order.                 *)

Perms(n) == {f \in [1..n -> 1..n] : \A i, j \in 1..n : f[i] = f[j] => i = j}

(* The k-th modification of the chain over a base list of nb entries. *)
ChainMod(nb, acts, k) ==
    IF k = 1 THEN Bare(nb + 1) ELSE Rel(nb + k, acts[k], ModName(k - 1))

ChainHeap(nb, n) ==
    [o \in 1..(nb + n) |->
        IF o <= nb THEN PairCell(BaseName(o), BaseTag(o))
        ELSE PairCell(ModName(o - nb), ModTag(o - nb))]

ChainCall(nb, n, acts, perm) ==
    [heap |-> ChainHeap(nb, n),
     list |-> [i \in 1..nb |-> i],
     mods |-> [i \in 1..n |-> ChainMod(nb, acts, perm[i])]]

InitResolver ==
    /\ \E nb \in 0..MaxBase, n \in 1..MaxChain :
          \E acts \in [2..n -> {"before", "after"}], perm \in Perms(n) :
              mIn = ChainCall(nb, n, acts, perm)
    /\ mOut = NoPlan
    /\ pc = "modify"
    /\ base = <<>>
    /\ heap = <<>>
    /\ heap0 = <<>>
    /\ plugins = <<>>
    /\ nextId = 0
    /\ nreq = 0
    /\ rid = undefined
    /\ mods = <<>>
    /\ input = Absent
    /\ output = Absent
    /\ sequence = <<>>
    /\ middleware = <<>>
    /\ threw = FALSE
    /\ requestError = NoError
    /\ result = Pending
    /\ events = <<>>
    /\ calls = <<>>
    /\ catches = <<>>
    /\ pipelineName = PipelineName
    /\ parent = NoParent
    /\ second = <<>>
    /\ outer = NoOuter
    /\ parked = NoParked
    /\ flight = NoFlight

RunModify ==
    /\ pc = "modify"
    /\ mOut' = modify(mIn.heap, mIn.list, mIn.mods)
    /\ pc' = "modified"
    /\ UNCHANGED <<base, plugins, heap, heap0, nextId, nreq, rid, mods, input, output,
                   sequence, middleware, threw, requestError, result, events, calls,
                   catches, mIn, connection, concurrency>>

NextResolver == RunModify

SpecResolver == InitResolver /\ [][NextResolver]_vars

(* What a request resolves to on the list when every handler calls next    *)
(* once and returns its result.                                            *)
RECURSIVE RunAll(_, _, _)
RunAll(hp, list, v) ==
    IF list = <<>> THEN v
    ELSE RunAll(hp, Tail(list), freezeUp(Apply(hp[Head(list)].h, v)))

(* The modifications of ms listed in the order of their middleware         *)
(* objects: the chain from its head on.                                    *)
Ascending(ms) ==
    LET lowest == CHOOSE i \in DOMAIN ms : \A j \in DOMAIN ms : ms[i].mw <= ms[j].mw
        first  == ms[lowest].mw
    IN  [k \in DOMAIN ms |-> ms[CHOOSE i \in DOMAIN ms : ms[i].mw = first + k - 1]]

(* C5: the modifications of a chain resolve to the same final list, and    *)
(* the request to the same output, in whatever order they are listed.      *)
C5_ChainOrderIndependent ==
    pc = "modified" =>
        LET listed == modify(mIn.heap, mIn.list, Ascending(mIn.mods))
        IN  /\ ~mOut.threw
            /\ ~listed.threw
            /\ mOut.list = listed.list
            /\ \A in \in Inputs :
                  RunAll(mOut.heap, mOut.list, in) = RunAll(listed.heap, listed.list, in)

(* The chain d before c before b before a, listed from d down to a, over   *)
(* one base middleware: the final list is the base, then d, c, b, a.       *)
C5_Witness ==
    /\ pc = "modified"
    /\ Len(mIn.list) = 1
    /\ Len(mIn.mods) = 4
    /\ \A i \in 1..4 : mIn.mods[i].mw = 6 - i
    /\ \A i \in 1..3 : mIn.mods[i].action = "before"
    /\ mOut.list = <<1, 5, 4, 3, 2>>
    /\ RunAll(mOut.heap, mOut.list, [data |-> <<>>, frozen |-> FALSE]).data
          = <<BaseTag(1), ModTag(4), ModTag(3), ModTag(2), ModTag(1)>>

----------------------------------------------------------------------------
(* The engine with any list of plugins: the requests of one pipeline of    *)
(* two named middlewares, called without modifications.                    *)

InitPlugins ==
    /\ plugins \in UNION {[1..n -> PluginKinds] : n \in 0..MaxPlugins}
    /\ base = <<1, 2>>
    /\ heap = BaseHeap(2, {1, 2})
    /\ heap0 = BaseHeap(2, {1, 2})
    /\ nextId = 1
    /\ nreq = 0
    /\ pc = "ready"
    /\ rid = uuid(1)
    /\ mods = <<>>
    /\ input = Absent
    /\ output = Absent
    /\ sequence = <<>>
    /\ middleware = <<>>
    /\ threw = FALSE
    /\ requestError = NoError
    /\ result = Pending
    /\ events = <<>>
    /\ calls = <<>>
    /\ catches = <<>>
    /\ mIn = NoCall
    /\ mOut = NoPlan
    /\ pipelineName = PipelineName
    /\ parent = NoParent
    /\ second = <<>>
    /\ outer = NoOuter
    /\ parked = NoParked
    /\ flight = NoFlight

NextPlugins ==
    \/ \E in \in Inputs : CallRequest(in)
    \/ Resolve
    \/ \E beh \in Behaviours : Invoke(beh)
    \/ Finally

SpecPlugins == InitPlugins /\ [][NextPlugins]_vars

(* C15: for one output-bearing event the plugins are called one at a time  *)
(* in registration order; the first receives the original output, and each *)
(* later one the value the plugin before it returned or, when that one     *)
(* returned nothing, the output that one received.                         *)
OutputBearing(ev) ==
    ev.type \in {"invocation-end", "request-end"} /\ ev.status = "success"

(* The deliveries of the output-bearing event (type, iid), in log order. *)
DeliveriesOf(type, iid) ==
    SelectSeq(events, LAMBDA d : /\ OutputBearing(d.ev)
                                 /\ d.ev.type = type
                                 /\ d.ev.iid = iid)

InterceptorsInOrder ==
    SelectSeq([p \in DOMAIN plugins |-> p], LAMBDA p : HasIntercept(plugins[p]))

Chained(ds, original) ==
    /\ [j \in DOMAIN ds |-> ds[j].plugin] = InterceptorsInOrder
    /\ \A j \in DOMAIN ds :
          /\ ds[j].ev.output.frozen
          /\ ds[j].ev.output.data =
                IF j = 1 THEN original
                ELSE IF PluginReturns(plugins[ds[j - 1].plugin], ds[j - 1].ev)
                THEN PluginValue(plugins[ds[j - 1].plugin], ds[j - 1].ev).data
                ELSE ds[j - 1].ev.output.data

C15_PluginChaining ==
    /\ \A k \in DOMAIN calls : (Truthy(calls[k].name) /\ ~Failed(calls[k])) =>
          Chained(DeliveriesOf("invocation-end", calls[k].iid),
                  Append(calls[k].input, calls[k].h))
    /\ (pc = "settled" /\ result.status = "resolved") =>
          Chained(DeliveriesOf("request-end", undefined), output.data)

C15_Witness ==
    /\ pc = "settled"
    /\ plugins = <<"trace", "observe", "trace">>
    /\ Len(calls) = 2
    /\ calls[1].beh = "pass"
    /\ LET ds == DeliveriesOf("invocation-end", calls[1].iid)
       IN  /\ Len(ds) = 3
           /\ ds[1].ev.output.data = <<"x", BaseTag(1)>>
           /\ ds[2].ev.output.data = <<"x", BaseTag(1), "+b1">>
           /\ ds[3].ev.output.data = <<"x", BaseTag(1), "+b1">>
    /\ calls[2].input = <<"x", BaseTag(1), "+b1", "+b1">>

(* C16: when a plugin returns a value for a request-end event with status  *)
(* success, the request handler's promise resolves to that value, the one  *)
(* returned last.                                                          *)
C16_RequestEndSupersedes ==
    (pc = "settled" /\ result.status = "resolved") =>
        LET ds        == DeliveriesOf("request-end", undefined)
            returning == {j \in DOMAIN ds : PluginReturns(plugins[ds[j].plugin], ds[j].ev)}
        IN  returning # {} =>
                LET last == CHOOSE j \in returning : \A i \in returning : i <= j
                IN  result.value.data = PluginValue(plugins[ds[last].plugin], ds[last].ev).data

----------------------------------------------------------------------------
(* Connected pipelines.  Pipeline "test" holds a linking middleware whose  *)
(* handler is                                                              *)
(*     next => async input => await second.connect(next)(mods)(input)      *)
(* and `second` is a pipeline built with the same options.  The request on *)
(* the connected pipeline runs with the variables of the engine; the       *)
(* request of "test" that awaits it is kept in outer.                      *)

SecondPipelineName == "second"

SecondName(i) == "s" \o ToString(i)

SecondTag(i) == "k" \o ToString(i)

(* The modification lists given to the connected pipeline. *)
ConnectMods == { <<>>, <<TBare(TRUE)>> }

(* nBefore middlewares, the linking one, nAfter middlewares; then the      *)
(* nSecond middlewares of the second pipeline.                             *)
ConnectHeap(nBefore, nAfter, nSecond) ==
    [o \in 1..(nBefore + 1 + nAfter + nSecond) |->
        IF o = nBefore + 1 THEN PairCell(BaseName(o), LinkTag)
        ELSE IF o <= nBefore + 1 + nAfter THEN PairCell(BaseName(o), BaseTag(o))
        ELSE PairCell(SecondName(o - (nBefore + 1 + nAfter)),
                      SecondTag(o - (nBefore + 1 + nAfter)))]

InitConnect ==
    /\ \E nBefore \in 0..1, nAfter \in 0..MaxOuter, nSecond \in 0..MaxInner :
          /\ base = [i \in 1..(nBefore + 1 + nAfter) |-> i]
          /\ second = [i \in 1..nSecond |-> nBefore + 1 + nAfter + i]
          /\ heap = ConnectHeap(nBefore, nAfter, nSecond)
          /\ heap0 = ConnectHeap(nBefore, nAfter, nSecond)
    /\ plugins \in PluginLists
    /\ nreq = MaxRequests - 1
    /\ nextId = IdBlock(MaxRequests - 1) + 1
    /\ rid = uuid(IdBlock(MaxRequests - 1) + 1)
    /\ pc = "ready"
    /\ mods = <<>>
    /\ input = Absent
    /\ output = Absent
    /\ sequence = <<>>
    /\ middleware = <<>>
    /\ threw = FALSE
    /\ requestError = NoError
    /\ result = Pending
    /\ events = <<>>
    /\ calls = <<>>
    /\ catches = <<>>
    /\ mIn = NoCall
    /\ mOut = NoPlan
    /\ pipelineName = PipelineName
    /\ parent = NoParent
    /\ outer = NoOuter
    /\ parked = NoParked
    /\ flight = NoFlight

(* The object connect creates: () => next. *)
Continuation == Len(heap0) + 1

(* A next that carries no request id. *)
nextWithoutRid(r) == [ridKey |-> undefined]

(* The next of the request r, as a parent: next[ridKey] = rid. *)
nextOf(r) == [ridKey |-> r]

(* A connect that pushes () => next onto the list of the pipeline it is    *)
(* called on.                                                              *)
connectPushing(to) ==
    [parent |-> to, pipelineName |-> SecondPipelineName,
     middlewares |-> Append(second, Continuation),
     original |-> Append(second, Continuation)]

(* pipeline.connect(next) on the second pipeline: the arguments of the     *)
(* builder call it makes, [...middlewares, () => next] being a new array,  *)
(* and the list of the pipeline it was called on.                          *)
connect(to) ==
    [parent |-> to, pipelineName |-> SecondPipelineName,
     middlewares |-> Append(second, Continuation),
     original |-> second]

(* A last middleware whose handler returns its input and calls nothing. *)
continuationIdle(cursor) == cursor

(* The handler of () => next is the next of the awaiting request: what     *)
(* calling it makes of that request's cursor.                              *)
continuation(cursor) == next(cursor)

(* The linking middleware is invoked: invoke notifies invocation-begin and *)
(* calls the handler, which connects the second pipeline to its next       *)
(* (pipeline.connect) and calls the new pipeline with modifications.       *)
Enter(tpl) ==
    /\ pc = "loop"
    /\ middleware # <<>>
    /\ heap[middleware[1]].h = LinkTag
    /\ outer.phase # "awaiting"
    /\ ~invokeBegin(middleware[1], output).threw
    /\ LET begun == invokeBegin(middleware[1], output)
       IN  /\ events' = begun.log
           /\ outer' = [phase   |-> "awaiting",
                        current |-> middleware[1],
                        iid     |-> begun.iid,
                        name    |-> begun.name,
                        at      |-> Len(begun.log),
                        nextCalls |-> 0,
                        frame   |-> [rid |-> rid, mods |-> mods, input |-> input,
                                     output |-> output,
                                     sequence |-> loopCursor(sequence, middleware).sequence,
                                     middleware |-> loopCursor(sequence, middleware).middleware,
                                     calls |-> calls, catches |-> catches,
                                     mIn |-> mIn, mOut |-> mOut, base |-> base,
                                     pipelineName |-> pipelineName, parent |-> parent]]
    /\ parent' = connect(nextOf(rid)).parent
    /\ pipelineName' = connect(nextOf(rid)).pipelineName
    /\ base' = connect(nextOf(rid)).middlewares
    /\ second' = connect(nextOf(rid)).original
    /\ heap' = [o \in DOMAIN heap \cup {Continuation} \cup DOMAIN ModHeap(Continuation, tpl) |->
                   IF o \in DOMAIN ModHeap(Continuation, tpl)
                   THEN ModHeap(Continuation, tpl)[o]
                   ELSE IF o = Continuation THEN FnCell(ContinuationTag)
                   ELSE heap[o]]
    /\ mods' = ModsOf(Continuation, tpl)
    /\ rid' = uuid(nextId + 2)
    /\ nextId' = nextId + 2
    /\ pc' = "connected"
    /\ input' = Absent
    /\ output' = Absent
    /\ sequence' = <<>>
    /\ middleware' = <<>>
    /\ calls' = <<>>
    /\ catches' = <<>>
    /\ mIn' = NoCall
    /\ mOut' = NoPlan
    /\ UNCHANGED <<plugins, heap0, nreq, threw, requestError, result, concurrency>>

(* The linking handler calls the request handler of the connected          *)
(* pipeline with its own input: request-begin, freezeUp(input).            *)
CallConnected ==
    /\ pc = "connected"
    /\ events' = notifyWithoutOutput(events, plugins, requestBegin(outer.frame.output))
    /\ input' = freezeUp(outer.frame.output)
    /\ output' = freezeUp(outer.frame.output)
    /\ threw' = notifyWithoutOutputThrew(plugins, requestBegin(outer.frame.output))
    /\ result' = beforeTry(outer.frame.output)
    /\ pc' = IF notifyWithoutOutputThrew(plugins, requestBegin(outer.frame.output))
             THEN "settled" ELSE "resolve"
    /\ UNCHANGED <<base, plugins, heap, heap0, nextId, nreq, rid, mods, sequence,
                   middleware, requestError, calls, catches, mIn, mOut, connection, concurrency>>
(* The connected pipeline reaches () => next: the handler it returns is    *)
(* the next of the awaiting request, which shifts that request's sequence  *)
(* and returns its patch.  The next of the connected request is not        *)
(* called.                                                                 *)
InvokeContinuation ==
    /\ pc = "loop"
    /\ middleware # <<>>
    /\ heap[middleware[1]].h = ContinuationTag
    /\ outer.phase = "awaiting"
    /\ ~invokeBegin(middleware[1], output).threw
    /\ LET current == middleware[1]
           begun   == invokeBegin(current, output)
           handled == [threw |-> FALSE, error |-> NoError, value |-> output]
           ended   == invokeEnd(begun, output, handled, begun.log)
           resumed == continuation([sequence |-> outer.frame.sequence,
                                    middleware |-> outer.frame.middleware])
           cursor  == loopCursor(sequence, middleware)
       IN  /\ nextId' = nextId + 1
           /\ events' = ended.log
           /\ calls' = Append(calls,
                          [obj |-> current, h |-> ContinuationTag, name |-> begun.name,
                           input |-> output.data, frozen |-> output.frozen,
                           beh |-> "continue", ran |-> TRUE, iid |-> begun.iid,
                           at |-> Len(begun.log)])
           /\ outer' = [outer EXCEPT !.nextCalls = @ + 1,
                                     !.frame.sequence = resumed.sequence,
                                     !.frame.middleware = resumed.middleware]
           /\ sequence' = cursor.sequence
           /\ middleware' = cursor.middleware
           /\ threw' = ended.threw
           /\ requestError' = ended.error
           /\ output' = ended.output
           /\ pc' = IF ended.threw \/ cursor.middleware = <<>> THEN "finally" ELSE "loop"
    /\ UNCHANGED <<base, plugins, heap, heap0, nreq, rid, mods, input, result, catches,
                   mIn, mOut, pipelineName, parent, second, concurrency>>

(* A return into the awaiting request that shifts its sequence. *)
awaitingCursorShifted(frame) ==
    next([sequence |-> frame.sequence, middleware |-> frame.middleware])

(* The cursor of the awaiting request when the connected one has settled:  *)
(* as the calls of its next left it.                                       *)
awaitingCursor(frame) == [sequence |-> frame.sequence, middleware |-> frame.middleware]

(* A linking handler that does not wait for the connected request. *)
awaitedAtOnce(at) == TRUE

(* The linking handler awaits the promise of the connected request: it     *)
(* goes on when the request handler it called has settled.                 *)
awaited(at) == at = "settled"

(* The connected request settled: the linking handler's await ends, in     *)
(* the request that was waiting.                                           *)
Return ==
    /\ awaited(pc)
    /\ outer.phase = "awaiting"
    /\ outer' = [phase     |-> "returned",
                 current   |-> outer.current,
                 iid       |-> outer.iid,
                 name      |-> outer.name,
                 at        |-> outer.at,
                 nextCalls |-> outer.nextCalls,
                 settled   |-> result,
                 inner     |-> [rid |-> rid, calls |-> calls, sequence |-> sequence,
                                plan |-> mOut, input |-> input]]
    /\ rid' = outer.frame.rid
    /\ mods' = outer.frame.mods
    /\ input' = outer.frame.input
    /\ output' = outer.frame.output
    /\ sequence' = awaitingCursor(outer.frame).sequence
    /\ middleware' = awaitingCursor(outer.frame).middleware
    /\ calls' = outer.frame.calls
    /\ catches' = outer.frame.catches
    /\ mIn' = outer.frame.mIn
    /\ mOut' = outer.frame.mOut
    /\ base' = outer.frame.base
    /\ pipelineName' = outer.frame.pipelineName
    /\ parent' = outer.frame.parent
    /\ threw' = FALSE
    /\ requestError' = NoError
    /\ result' = Pending
    /\ pc' = "returned"
    /\ UNCHANGED <<plugins, heap, heap0, nextId, nreq, events, second, concurrency>>

(* The linking handler returns the response, or throws what the connected  *)
(* request rejected with, and invoke goes on from there.                   *)
Resume ==
    /\ pc = "returned"
    /\ LET handled == [threw |-> outer.settled.status = "rejected",
                       error |-> outer.settled.error,
                       value |-> outer.settled.value]
           ended   == invokeEnd([iid |-> outer.iid, name |-> outer.name], output,
                                handled, events)
       IN  /\ events' = ended.log
           /\ calls' = Append(calls,
                          [obj |-> outer.current, h |-> LinkTag, name |-> outer.name,
                           input |-> output.data, frozen |-> output.frozen,
                           beh |-> "link", ran |-> TRUE, iid |-> outer.iid,
                           at |-> outer.at])
           /\ threw' = ended.threw
           /\ requestError' = ended.error
           /\ output' = ended.output
           /\ pc' = IF ended.threw \/ middleware = <<>> THEN "finally" ELSE "loop"
    /\ outer' = [outer EXCEPT !.phase = "done"]
    /\ UNCHANGED <<base, plugins, heap, heap0, nextId, nreq, rid, mods, input, sequence,
                   middleware, result, catches, mIn, mOut, pipelineName, parent, second,
                   concurrency>>

NextConnect ==
    \/ \E in \in Inputs : CallRequest(in)
    \/ Resolve
    \/ \E beh \in Behaviours : Invoke(beh)
    \/ \E tpl \in ConnectMods : Enter(tpl)
    \/ CallConnected
    \/ InvokeContinuation
    \/ Return
    \/ Resume
    \/ Finally

SpecConnect == InitConnect /\ [][NextConnect]_vars

(* C19: every event of the request on the connected pipeline carries prid  *)
(* equal to the rid of the request that awaits it, a rid of its own, and   *)
(* the name of the second pipeline; the events of the pipeline that was    *)
(* not reached through connect carry no prid.                              *)
AwaitingRid == IF outer.phase = "awaiting" THEN outer.frame.rid ELSE rid

ConnectedRid == IF outer.phase = "awaiting" THEN rid ELSE outer.inner.rid

(* The events plugin p received after the invocation-begin of the linking  *)
(* middleware, while the connected request was running.                    *)
ConnectedEvents(p) ==
    LET after == SelectSeq([i \in DOMAIN events |->
                               [at |-> i, plugin |-> events[i].plugin, ev |-> events[i].ev]],
                           LAMBDA d : d.plugin = p /\ d.at > outer.at)
    IN  [i \in DOMAIN after |-> after[i].ev]

C19_ParentRequestId ==
    /\ \A i \in DOMAIN events :
          LET e == events[i].ev
          IN  \/ /\ e.pipelineName = PipelineName
                 /\ e.prid = undefined
                 /\ e.rid = AwaitingRid
              \/ /\ e.pipelineName = SecondPipelineName
                 /\ outer.phase # "none"
                 /\ e.prid = AwaitingRid
                 /\ e.rid = ConnectedRid
                 /\ e.rid # AwaitingRid
    /\ (outer.phase = "awaiting" /\ pc \in {"resolve", "loop", "finally", "settled"}) =>
          \A p \in Interceptors :
              LET es == ConnectedEvents(p)
              IN  /\ Len(es) >= 1
                  /\ es[1].type = "request-begin"
                  /\ pc = "settled" => Last(es).type = "request-end"
                  /\ \A i \in DOMAIN es :
                        /\ es[i].pipelineName = SecondPipelineName
                        /\ es[i].prid = outer.frame.rid
                        /\ es[i].rid = rid

C19_Witness ==
    /\ outer.phase = "awaiting"
    /\ pc = "settled"
    /\ result.status = "resolved"
    /\ Len(second) = 2
    /\ \A p \in Interceptors :
          /\ Len(ConnectedEvents(p)) = 6
          /\ {ConnectedEvents(p)[i].type : i \in 1..6} =
                {"request-begin", "invocation-begin", "invocation-end", "request-end"}
          /\ \A i \in 1..6 : ConnectedEvents(p)[i].prid = outer.frame.rid

(* C20: when every middleware of the connected pipeline calls next once,   *)
(* the synthetic last middleware calls the continuation of the awaiting    *)
(* request exactly once, the connected request's result is what the        *)
(* linking handler returns, and the awaiting chain goes on with the        *)
(* middleware that follows the linking one, invoked exactly once with      *)
(* that result (as the plugins left it at the linking invocation-end) as   *)
(* its input.                                                              *)
LinkAt == CHOOSE i \in DOMAIN base : base[i] = outer.current

LinkCall == CHOOSE j \in DOMAIN calls : calls[j].beh = "link"

InvocationsOf(obj) == {k \in DOMAIN calls : calls[k].obj = obj}

ConnectedChainCompletes ==
    /\ outer.phase \in {"returned", "done"}
    /\ Len(outer.inner.calls) = Len(second) + 1
    /\ \A k \in 1..Len(second) :
          /\ outer.inner.calls[k].obj = second[k]
          /\ outer.inner.calls[k].beh = "pass"
    /\ outer.inner.calls[Len(second) + 1].h = ContinuationTag

C20_ControlReturnsToLink ==
    ConnectedChainCompletes =>
        /\ outer.nextCalls = 1
        /\ outer.settled.status = "resolved"
        /\ Len(outer.settled.value.data) >= Len(outer.inner.input.data) + Len(second)
        /\ outer.phase = "returned" =>
              /\ LinkAt < Len(base) => middleware = <<base[LinkAt + 1]>>
              /\ LinkAt = Len(base) => middleware = <<>>
        /\ outer.phase = "done" =>
              LET replaced == TracedBy(outer.settled.value.data, outer.name, Len(plugins))
              IN  /\ \E i \in DeliveredAt(InterceptorsInOrder[1], "invocation-end", outer.iid) :
                        events[i].ev.output = outer.settled.value
                  /\ LinkCall = Len(calls) => output.data = replaced
                  /\ LinkAt = Len(base) =>
                        /\ LinkCall = Len(calls)
                        /\ pc \in {"finally", "settled"}
                  /\ LinkAt < Len(base) =>
                        /\ (pc = "loop" /\ LinkCall = Len(calls)) =>
                              middleware = <<base[LinkAt + 1]>>
                        /\ LinkCall < Len(calls) =>
                              /\ calls[LinkCall + 1].obj = base[LinkAt + 1]
                              /\ calls[LinkCall + 1].input = replaced
                        /\ Cardinality(InvocationsOf(base[LinkAt + 1])) <= 1
                        /\ pc \in {"finally", "settled"} =>
                              Cardinality(InvocationsOf(base[LinkAt + 1])) = 1

C20_Witness ==
    /\ outer.phase = "done"
    /\ pc = "settled"
    /\ ConnectedChainCompletes
    /\ Len(second) = 2
    /\ plugins = <<"mute", "observe">>
    /\ Len(base) = 3
    /\ LinkAt = 2
    /\ Len(calls) = 3
    /\ calls[3].obj = base[3]
    /\ calls[3].beh = "pass"
    /\ calls[3].input = <<"x", BaseTag(1), SecondTag(1), SecondTag(2)>>
    /\ result.status = "resolved"
    /\ result.value.data = <<"x", BaseTag(1), SecondTag(1), SecondTag(2), BaseTag(3)>>

----------------------------------------------------------------------------
(* Writes to frozen values.  The pipelines of this specification have up   *)
(* to MaxFrozen middlewares; a handler may assign to a property of its     *)
(* input before it calls next, and the plugins may write into the events   *)
(* they receive or return values they did not freeze.                      *)

FrozenPluginLists ==
    { <<>>, <<"observe">>, <<"rewrite">>, <<"trace", "rewrite">>,
      <<"scribbleInput">>, <<"scribbleOutput">>,
      <<"observe", "scribbleOutput">>, <<"rewrite", "scribbleOutput">>,
      <<"scribbleInput", "observe">> }

InitFrozen ==
    /\ \E n \in 1..MaxFrozen : \E named \in BaseNamings(n) :
          /\ base = [i \in 1..n |-> i]
          /\ heap = BaseHeap(n, named)
          /\ heap0 = BaseHeap(n, named)
    /\ plugins \in FrozenPluginLists
    /\ nextId = 1
    /\ nreq = 0
    /\ pc = "ready"
    /\ rid = uuid(1)
    /\ mods = <<>>
    /\ input = Absent
    /\ output = Absent
    /\ sequence = <<>>
    /\ middleware = <<>>
    /\ threw = FALSE
    /\ requestError = NoError
    /\ result = Pending
    /\ events = <<>>
    /\ calls = <<>>
    /\ catches = <<>>
    /\ mIn = NoCall
    /\ mOut = NoPlan
    /\ pipelineName = PipelineName
    /\ parent = NoParent
    /\ second = <<>>
    /\ outer = NoOuter
    /\ parked = NoParked
    /\ flight = NoFlight

(* One turn of the loop on a handler that assigns to a property of its     *)
(* input, at the given depth, and then returns await next(input).          *)
InvokeWriting(depth) ==
    /\ pc = "loop"
    /\ middleware # <<>>
    /\ ~heap[middleware[1]].pair \/ heap[middleware[1]].slotFn
    /\ ~invokeBegin(middleware[1], output).threw
    /\ LET current == middleware[1]
           begun   == invokeBegin(current, output)
           written == write(output, depth)
           handled == [threw |-> written.threw, error |-> written.error,
                       value |-> output]
           ended   == invokeEnd(begun, output, handled, begun.log)
           cursor  == IF written.threw THEN loopCursor(sequence, middleware)
                      ELSE next(loopCursor(sequence, middleware))
       IN  /\ nextId' = nextId + 1
           /\ events' = ended.log
           /\ calls' = Append(calls,
                          [obj |-> current, h |-> heap[current].h, name |-> begun.name,
                           input |-> output.data, frozen |-> output.frozen,
                           beh |-> "write", ran |-> TRUE, iid |-> begun.iid,
                           at |-> Len(begun.log), depth |-> depth,
                           wrote |-> written.applied])
           /\ sequence' = cursor.sequence
           /\ middleware' = cursor.middleware
           /\ threw' = ended.threw
           /\ requestError' = rethrow(ended.error)
           /\ output' = ended.output
           /\ pc' = IF ended.threw \/ cursor.middleware = <<>> THEN "finally" ELSE "loop"
    /\ UNCHANGED <<base, plugins, heap, heap0, nreq, rid, mods, input, result, catches,
                   mIn, mOut, connection, concurrency>>

NextFrozen ==
    \/ \E in \in Inputs : CallRequest(in)
    \/ Resolve
    \/ \E beh \in Behaviours : Invoke(beh)
    \/ \E depth \in WriteDepths : InvokeWriting(depth)
    \/ Finally

SpecFrozen == InitFrozen /\ [][NextFrozen]_vars

(* C21: every value handed to a handler (the request input, a handler      *)
(* output, a plugin replacement) is frozen when it is delivered; a write   *)
(* by the handler, at any depth, raises an error and is not applied, the   *)
(* invocation ends as a failure and the request's promise rejects.         *)
Writes == {k \in DOMAIN calls : calls[k].beh = "write"}

C21_HandlerInputsFrozen ==
    /\ \A k \in DOMAIN calls : calls[k].ran => calls[k].frozen
    /\ \A k \in Writes :
          /\ ~calls[k].wrote
          /\ k = Len(calls)
          /\ pc \in {"finally", "settled"}
          /\ threw
          /\ requestError.type = "TypeError"
          /\ (Truthy(calls[k].name) /\ Interceptors # {}) =>
                \E i \in DOMAIN events :
                    /\ events[i].ev.type = "invocation-end"
                    /\ events[i].ev.iid = calls[k].iid
                    /\ events[i].ev.status = "failure"
                    /\ events[i].ev.error = ReadOnly
          /\ pc = "settled" =>
                /\ result.status = "rejected"
                /\ result.error = ReadOnly

(* The second handler writes into what the plugin returned in place of     *)
(* the first one's output.                                                 *)
C21_Witness ==
    /\ pc = "settled"
    /\ plugins = <<"rewrite">>
    /\ Len(calls) = 2
    /\ calls[1].beh = "pass"
    /\ calls[2].beh = "write"
    /\ calls[2].depth = "element"
    /\ calls[2].input = <<"x", BaseTag(1), "+" \o BaseName(1)>>
    /\ result = Rejected(ReadOnly)

(* C22: every event delivered to a plugin is frozen with its input and     *)
(* its output; a plugin that writes into event.input or event.output gets  *)
(* an error at the write, the payload stays as it was, and the request's   *)
(* promise rejects with that error.                                        *)
PluginWriteAttempts ==
    {i \in DOMAIN events :
        /\ plugins[events[i].plugin] \in WritingKinds
        /\ PluginWrites(plugins[events[i].plugin], events[i].ev)}

C22_EventsFrozen ==
    /\ \A i \in DOMAIN events :
          /\ events[i].ev.input.frozen
          /\ events[i].ev.output # Absent => events[i].ev.output.frozen
    /\ \A i \in PluginWriteAttempts :
          /\ ~events[i].wrote
          /\ pc \in {"finally", "settled"}
          /\ pc = "finally" => threw /\ requestError = ReadOnly
          /\ pc = "settled" => result = Rejected(ReadOnly)

C22_Witness ==
    /\ pc = "settled"
    /\ plugins = <<"observe", "scribbleOutput">>
    /\ result = Rejected(ReadOnly)
    /\ Len(calls) = 1
    /\ calls[1].beh = "pass"
    /\ \E i \in PluginWriteAttempts :
          /\ events[i].ev.type = "invocation-end"
          /\ events[i].ev.status = "success"
          /\ events[i].ev.output.data = <<"x", BaseTag(1)>>

----------------------------------------------------------------------------
(* Two requests on one pipeline.  Each request handler call has its own    *)
(* input, output, requestError, sequence, middleware and next; the         *)
(* pipeline's middleware list, its plugins and the middleware objects are  *)
(* shared.  JavaScript runs one call until it awaits: the running call's   *)
(* variables are the variables of the engine, the other call's are kept    *)
(* in parked, and Switch, possible at every await, exchanges the two.      *)
(* invoke is taken in three steps, with an await between them: up to the   *)
(* invocation-begin notification, the handler, and the rest.               *)

ConcurrentMods ==
    { <<>>, <<TSkip(BaseName(1))>>, <<TRel(FALSE, "before", BaseName(1))>> }

ConcurrentBehaviours == {"pass", "stop", "throw"}

ConcurrentPlugins == { <<"trace">> }

ConcurrentInputs == { [data |-> <<"x">>, frozen |-> FALSE] }

(* The variables of a request handler call that has not begun. *)
Unstarted(r, ms) ==
    [pc |-> "ready", rid |-> r, mods |-> ms, input |-> Absent, output |-> Absent,
     sequence |-> <<>>, middleware |-> <<>>, threw |-> FALSE, requestError |-> NoError,
     result |-> Pending, events |-> <<>>, calls |-> <<>>, catches |-> <<>>,
     mIn |-> NoCall, mOut |-> NoPlan, nextId |-> 0, flight |-> NoFlight]

(* The variables of the running call. *)
Running ==
    [pc |-> pc, rid |-> rid, mods |-> mods, input |-> input, output |-> output,
     sequence |-> sequence, middleware |-> middleware, threw |-> threw,
     requestError |-> requestError, result |-> result, events |-> events,
     calls |-> calls, catches |-> catches, mIn |-> mIn, mOut |-> mOut,
     nextId |-> nextId, flight |-> flight]

(* const request1 = pipeline(tpl1), request2 = pipeline(tpl2) on a         *)
(* pipeline of n named middlewares.                                        *)
ConcurrentHeap(n, tpl1, tpl2) ==
    [o \in (1..n) \cup DOMAIN ModHeap(n, tpl1) \cup DOMAIN ModHeap(n + Len(tpl1), tpl2) |->
        IF o <= n THEN PairCell(BaseName(o), BaseTag(o))
        ELSE IF o \in DOMAIN ModHeap(n, tpl1) THEN ModHeap(n, tpl1)[o]
        ELSE ModHeap(n + Len(tpl1), tpl2)[o]]

InitConcurrent ==
    /\ \E n \in 1..MaxConcurrent : \E tpl1 \in ConcurrentMods, tpl2 \in ConcurrentMods :
          /\ base = [i \in 1..n |-> i]
          /\ heap = ConcurrentHeap(n, tpl1, tpl2)
          /\ heap0 = BaseHeap(n, 1..n)
          /\ mods = ModsOf(n, tpl1)
          /\ parked = Unstarted(uuid(IdBlock(MaxRequests + 1) + 1),
                                ModsOf(n + Len(tpl1), tpl2))
    /\ plugins \in ConcurrentPlugins
    /\ nextId = 0
    /\ nreq = MaxRequests - 2
    /\ pc = "ready"
    /\ rid = uuid(IdBlock(MaxRequests) + 1)
    /\ input = Absent
    /\ output = Absent
    /\ sequence = <<>>
    /\ middleware = <<>>
    /\ threw = FALSE
    /\ requestError = NoError
    /\ result = Pending
    /\ events = <<>>
    /\ calls = <<>>
    /\ catches = <<>>
    /\ mIn = NoCall
    /\ mOut = NoPlan
    /\ pipelineName = PipelineName
    /\ parent = NoParent
    /\ second = <<>>
    /\ outer = NoOuter
    /\ flight = NoFlight

(* A cursor that belongs to the pipeline: the one the running call left. *)
sharedCursor(frame) == [sequence |-> sequence, middleware |-> middleware]

(* let middleware and const sequence are declared inside the request       *)
(* handler: a call that goes on finds them as it left them.                *)
ownCursor(frame) == [sequence |-> frame.sequence, middleware |-> frame.middleware]

(* The running call awaits and the other call goes on. *)
Switch ==
    /\ parked # NoParked
    /\ parked' = Running
    /\ pc' = parked.pc
    /\ rid' = parked.rid
    /\ mods' = parked.mods
    /\ input' = parked.input
    /\ output' = parked.output
    /\ sequence' = ownCursor(parked).sequence
    /\ middleware' = ownCursor(parked).middleware
    /\ threw' = parked.threw
    /\ requestError' = parked.requestError
    /\ result' = parked.result
    /\ events' = parked.events
    /\ calls' = parked.calls
    /\ catches' = parked.catches
    /\ mIn' = parked.mIn
    /\ mOut' = parked.mOut
    /\ nextId' = parked.nextId
    /\ flight' = parked.flight
    /\ UNCHANGED <<base, plugins, heap, heap0, nreq, connection>>

(* The loop takes the middleware and invoke runs up to the end of the      *)
(* invocation-begin notification.                                          *)
InvokeBegin ==
    /\ pc = "loop"
    /\ middleware # <<>>
    /\ flight = NoFlight
    /\ LET begun == invokeBegin(middleware[1], output)
       IN  /\ flight' = [step |-> "begun", current |-> middleware[1], begun |-> begun]
           /\ events' = begun.log
    /\ nextId' = nextId + 1
    /\ sequence' = loopCursor(sequence, middleware).sequence
    /\ middleware' = loopCursor(sequence, middleware).middleware
    /\ pc' = "invoke"
    /\ UNCHANGED <<base, plugins, heap, heap0, nreq, rid, mods, input, output, threw,
                   requestError, result, calls, catches, mIn, mOut, connection, parked>>

(* The handler runs: its calls of next move the cursor of its own request. *)
InvokeHandler(beh) ==
    /\ pc = "invoke"
    /\ flight.step = "begun"
    /\ LET done == invokeHandler(flight.current,
                                 [sequence |-> sequence, middleware |-> middleware],
                                 output, beh, flight.begun)
       IN  /\ sequence' = done.cursor.sequence
           /\ middleware' = done.cursor.middleware
           /\ flight' = [step |-> "handled", current |-> flight.current,
                         begun |-> flight.begun, beh |-> beh, ran |-> done.ran,
                         handled |-> done.handled]
    /\ UNCHANGED <<base, plugins, heap, heap0, nextId, nreq, pc, rid, mods, input, output,
                   threw, requestError, result, events, calls, catches, mIn, mOut,
                   connection, parked>>

(* The rest of invoke, and the loop's assignment to output. *)
InvokeEnd ==
    /\ pc = "invoke"
    /\ flight.step = "handled"
    /\ LET ended == invokeEnd(flight.begun, output, flight.handled, events)
       IN  /\ events' = ended.log
           /\ calls' = Append(calls, callOf(flight.current, output, flight.beh,
                                            flight.begun, flight.ran))
           /\ threw' = ended.threw
           /\ requestError' = rethrow(ended.error)
           /\ output' = ended.output
           /\ catches' = IF ended.threw THEN catches \o suspendedInNext(calls) ELSE catches
           /\ pc' = IF ended.threw \/ middleware = <<>> THEN "finally" ELSE "loop"
    /\ flight' = NoFlight
    /\ UNCHANGED <<base, plugins, heap, heap0, nextId, nreq, rid, mods, input, sequence,
                   middleware, result, mIn, mOut, connection, parked>>

NextConcurrent ==
    \/ \E in \in ConcurrentInputs : CallRequest(in)
    \/ Resolve
    \/ InvokeBegin
    \/ \E beh \in ConcurrentBehaviours : InvokeHandler(beh)
    \/ InvokeEnd
    \/ Finally
    \/ Switch

SpecConcurrent == InitConcurrent /\ [][NextConcurrent]_vars

(* The request running alone on the cursor, from value v, its k-th         *)
(* handler on behaving as behs[k], for as many invocations as behs has.    *)
RECURSIVE RunAlone(_, _, _, _)
RunAlone(cursor, v, behs, k) ==
    IF cursor.middleware = <<>> \/ k > Len(behs)
    THEN [threw |-> FALSE, error |-> NoError, output |-> v, objs |-> <<>>,
          cursor |-> cursor]
    ELSE LET r == invoke(cursor.middleware[1],
                         loopCursor(cursor.sequence, cursor.middleware), v, behs[k])
         IN  IF r.threw
             THEN [threw |-> TRUE, error |-> r.error, output |-> v,
                   objs |-> <<cursor.middleware[1]>>, cursor |-> r.cursor]
             ELSE LET rest == RunAlone(r.cursor, r.output, behs, k + 1)
                  IN  [rest EXCEPT !.objs = <<cursor.middleware[1]>> \o @]

(* C23: of two request handler calls on the same pipeline that run         *)
(* interleaved at their awaits, neither with a replace modification, each  *)
(* invokes the middlewares of its own resolved list in its own order and   *)
(* settles as it does alone; its cursor is moved by its own calls of next  *)
(* only.                                                                   *)
OwnPlan == modify(heap, base, mods)

FirstCursor(list) ==
    IF list = <<>> THEN [sequence |-> <<>>, middleware |-> <<>>]
    ELSE [sequence |-> Tail(list), middleware |-> <<Head(list)>>]

C23_ConcurrentRequestsIndependent ==
    (pc \in {"loop", "invoke", "finally", "settled"} /\ ~mOut.threw) =>
        LET alone == RunAlone(FirstCursor(OwnPlan.list), freezeUp(input),
                              [k \in DOMAIN calls |-> calls[k].beh], 1)
        IN  /\ mOut.list = OwnPlan.list
            /\ [k \in DOMAIN calls |-> calls[k].obj] = alone.objs
            /\ pc # "invoke" =>
                  /\ threw = alone.threw
                  /\ output = alone.output
                  /\ requestError = alone.error
            /\ pc = "loop" =>
                  /\ sequence = alone.cursor.sequence
                  /\ middleware = alone.cursor.middleware
            /\ pc \in {"finally", "settled"} =>
                  alone.threw \/ alone.cursor.middleware = <<>>
            /\ pc = "settled" =>
                  /\ result.status = IF alone.threw THEN "rejected" ELSE "resolved"
                  /\ ~alone.threw => result.value = alone.output
                  /\ alone.threw => result.error = alone.error

(* The call made second settled while the call made first is in the        *)
(* middle of its second invocation; they ran different lists.              *)
C23_Witness ==
    /\ pc = "settled"
    /\ result.status = "resolved"
    /\ Len(base) = 2
    /\ Len(calls) = 3
    /\ calls[1].iid = uuid(IdBlock(MaxRequests - 1) + 2)
    /\ mOut.list = <<3, 1, 2>>
    /\ result.value.data = <<"x", ModTag(1), BaseTag(1), "+" \o BaseName(1),
                              BaseTag(2), "+" \o BaseName(2)>>
    /\ parked.pc = "invoke"
    /\ parked.flight.step = "handled"
    /\ parked.mOut.list = <<2>>
    /\ Len(parked.calls) = 0
    /\ parked.flight.begun.iid = uuid(IdBlock(MaxRequests - 2) + 2)

----------------------------------------------------------------------------
(* The resolver on modification lists of every kind: modify applied to a   *)
(* base list of up to MaxList named middlewares, two of which may share a  *)
(* name, and to up to MaxMods modifications drawn from ResolverTemplates.  *)

ResolverTemplates ==
    {TBare(FALSE), TBare(TRUE)}
        \cup {TRel(FALSE, a, BaseName(1)) : a \in {"before", "after", "replace"}}
        \cup {TRel(TRUE, a, BaseName(1)) : a \in {"after", "replace"}}
        \cup {TRel(FALSE, a, BaseName(2)) : a \in {"before", "after"}}
        \cup {TRel(FALSE, a, ModName(1)) : a \in {"before", "after"}}
        \cup {TSkip(BaseName(1)), TSkip(BaseName(2))}

(* The middleware objects of the call: the base list, whose last entry     *)
(* has the name of the first one when twin is TRUE, and the middlewares of *)
(* the modifications.                                                      *)
ResolverHeap(nb, twin, tpl) ==
    [o \in (1..nb) \cup DOMAIN ModHeap(nb, tpl) |->
        IF o > nb THEN ModHeap(nb, tpl)[o]
        ELSE IF twin /\ o = nb THEN PairCell(BaseName(1), BaseTag(o))
        ELSE PairCell(BaseName(o), BaseTag(o))]

InitModify ==
    /\ \E nb \in 0..MaxList, n \in 0..MaxMods :
          \E twin \in {t \in BOOLEAN : t => nb >= 2}, tpl \in [1..n -> ResolverTemplates] :
              mIn = [heap |-> ResolverHeap(nb, twin, tpl),
                     list |-> [i \in 1..nb |-> i],
                     mods |-> ModsOf(nb, tpl)]
    /\ mOut = NoPlan
    /\ pc = "modify"
    /\ base = <<>>
    /\ heap = <<>>
    /\ heap0 = <<>>
    /\ plugins = <<>>
    /\ nextId = 0
    /\ nreq = 0
    /\ rid = undefined
    /\ mods = <<>>
    /\ input = Absent
    /\ output = Absent
    /\ sequence = <<>>
    /\ middleware = <<>>
    /\ threw = FALSE
    /\ requestError = NoError
    /\ result = Pending
    /\ events = <<>>
    /\ calls = <<>>
    /\ catches = <<>>
    /\ pipelineName = PipelineName
    /\ parent = NoParent
    /\ second = <<>>
    /\ outer = NoOuter
    /\ parked = NoParked
    /\ flight = NoFlight

SpecModify == InitModify /\ [][NextResolver]_vars

(* The positions of the modifications in the order in which the last loop  *)
(* of modify takes them, and the k-th modification it takes.               *)
Applied == SortedOrder(mIn.heap, mIn.mods)

AppliedMod(k) == mIn.mods[Applied[k]]

(* The 1-based position of the first entry with that name in a list. *)
FirstNamed(hp, list, ref) ==
    CHOOSE i \in DOMAIN list :
        /\ nameOf(hp, list[i]) = ref
        /\ \A j \in 1..(i - 1) : nameOf(hp, list[j]) # ref

Without(list, obj) == SelectSeq(list, LAMBDA o : o # obj)

(* C24: a before (after) modification puts its middleware immediately      *)
(* before (after) the first entry named ref of the working list as it is   *)
(* when the modification is applied, and leaves the other entries in the   *)
(* order they had.                                                         *)
C24_InsertAdjacent ==
    pc = "modified" =>
        /\ ~mOut.threw => WorkingBefore(Len(mIn.mods) + 1).list = mOut.list
        /\ \A k \in DOMAIN mIn.mods :
              LET m     == AppliedMod(k)
                  st    == WorkingBefore(k)
                  after == WorkingBefore(k + 1)
              IN  (m.kind = "rel" /\ m.action \in {"before", "after"} /\ ~after.threw) =>
                      LET i  == FirstNamed(st.heap, st.list, m.ref)
                          at == CHOOSE j \in DOMAIN after.list : after.list[j] = m.mw
                      IN  /\ Len(after.list) = Len(st.list) + 1
                          /\ Without(after.list, m.mw) = st.list
                          /\ m.action = "before" =>
                                /\ at = i
                                /\ after.list[at + 1] = st.list[i]
                          /\ m.action = "after" =>
                                /\ at = i + 1
                                /\ after.list[at - 1] = st.list[i]
                          /\ after.heap = st.heap

(* Two base entries are named b1; [x, 'after', 'b1'] and [y, 'before',     *)
(* 'b1'] land on the two sides of the first one.                           *)
C24_Witness ==
    /\ pc = "modified"
    /\ mIn.list = <<1, 2>>
    /\ nameOf(mIn.heap, 2) = BaseName(1)
    /\ Len(mIn.mods) = 2
    /\ mIn.mods[1] = Rel(3, "after", BaseName(1))
    /\ mIn.mods[2] = Rel(4, "before", BaseName(1))
    /\ mOut.list = <<4, 1, 3, 2>>

(* C25: relative modifications of equal weight that name the same          *)
(* reference with the same action (several after ref, or several before    *)
(* ref) stand in the final list in the order in which the caller listed    *)
(* them.                                                                   *)
PositionIn(list, obj) == CHOOSE i \in DOMAIN list : list[i] = obj

SameTarget(a, b) ==
    /\ a.kind = "rel"
    /\ b.kind = "rel"
    /\ a.action \in {"before", "after"}
    /\ a.action = b.action
    /\ a.ref = b.ref

C25_EqualWeightListedOrder ==
    (pc = "modified" /\ ~mOut.threw) =>
        \A i, j \in DOMAIN mIn.mods :
            (/\ i < j
             /\ SameTarget(mIn.mods[i], mIn.mods[j])
             /\ Weights(mIn.heap, mIn.mods)[i] = Weights(mIn.heap, mIn.mods)[j]) =>
                PositionIn(mOut.list, mIn.mods[i].mw) < PositionIn(mOut.list, mIn.mods[j].mw)

(* C26: a skip modification takes exactly the first entry named ref out of *)
(* the list derived for the request, so that its handler is not invoked,   *)
(* and the other entries keep their order; the pipeline's own list keeps   *)
(* the entry, and a later request without the skip invokes it.             *)
(* typeof current === 'function' ? current : current[1] is a function *)
Callable(hp, item) == ~hp[item].pair \/ hp[item].slotFn

(* The request loop on the list when every handler calls next once: the    *)
(* handlers run up to the first entry whose middlewareFn is no function.   *)
RECURSIVE RunList(_, _, _)
RunList(hp, list, v) ==
    IF list = <<>> THEN [threw |-> FALSE, error |-> NoError, output |-> v]
    ELSE IF ~Callable(hp, Head(list))
    THEN [threw |-> TRUE, error |-> NotAFunction, output |-> v]
    ELSE RunList(hp, Tail(list), freezeUp(Apply(hp[Head(list)].h, v)))

TagsOf(hp, list) == Range(RunList(hp, list, [data |-> <<>>, frozen |-> FALSE]).output.data)

C26_SkipRemovesFirstNamed ==
    pc = "modified" =>
        \A k \in DOMAIN mIn.mods :
            LET m     == AppliedMod(k)
                st    == WorkingBefore(k)
                after == WorkingBefore(k + 1)
            IN  (m.kind = "skip" /\ ~after.threw) =>
                    LET i       == FirstNamed(st.heap, st.list, m.ref)
                        removed == st.list[i]
                        later   == modify(mOut.heap, mIn.list, <<>>)
                    IN  /\ after.list = SubSeq(st.list, 1, i - 1)
                                           \o SubSeq(st.list, i + 1, Len(st.list))
                        /\ after.heap = st.heap
                        /\ ~mOut.threw =>
                              /\ removed \notin Range(mOut.list)
                              /\ st.heap[removed].h \notin TagsOf(mOut.heap, mOut.list)
                        /\ removed \in Range(mIn.list) =>
                              /\ ~later.threw
                              /\ later.list = mIn.list
                              /\ (\A o \in Range(later.list) : Callable(later.heap, o)) =>
                                    later.heap[removed].h \in TagsOf(later.heap, later.list)

(* Of two entries named b1 the skip takes the first one; the entry put     *)
(* before b1 and the bare middleware stay where they are.                  *)
C26_Witness ==
    /\ pc = "modified"
    /\ mIn.list = <<1, 2>>
    /\ nameOf(mIn.heap, 2) = BaseName(1)
    /\ mIn.mods = <<Rel(3, "before", BaseName(1)), Skip(BaseName(1)), Bare(5)>>
    /\ mOut.list = <<3, 2, 5>>

(* C27: a replace modification leaves the length of the list and the      *)
(* position and the name of its target as they were, and the request runs  *)
(* the supplied middleware's handler in the target's place, whether the    *)
(* supplied middleware is anonymous or a named pair; the entry is still    *)
(* found by the name ref afterwards.                                       *)
C27_ReplaceKeepsNameRunsHandler ==
    pc = "modified" =>
        \A k \in DOMAIN mIn.mods :
            LET m     == AppliedMod(k)
                st    == WorkingBefore(k)
                after == WorkingBefore(k + 1)
            IN  (m.kind = "rel" /\ m.action = "replace" /\ ~after.threw) =>
                    LET i      == FirstNamed(st.heap, st.list, m.ref)
                        target == st.list[i]
                        ran    == RunList(after.heap, <<target>>,
                                          [data |-> <<>>, frozen |-> FALSE])
                    IN  /\ after.list = st.list
                        /\ nameOf(after.heap, target) = m.ref
                        /\ FirstNamed(after.heap, after.list, m.ref) = i
                        /\ ~ran.threw
                        /\ ran.output.data = <<st.heap[m.mw].h>>

(* C28: in the final list every bare middleware given as a modification    *)
(* stands after every middleware of the base list, whatever before, after, *)
(* skip and replace modifications the request has and however they are     *)
(* listed.                                                                 *)
C28_BareAfterBase ==
    (pc = "modified" /\ ~mOut.threw) =>
        \A k \in DOMAIN mIn.mods :
            mIn.mods[k].kind = "bare" =>
                \A o \in Range(mIn.list) \cap Range(mOut.list) :
                    PositionIn(mOut.list, o) < PositionIn(mOut.list, mIn.mods[k].mw)

(* C29: the bare middlewares given as modifications, anonymous or named,   *)
(* stand in the final list in the order in which they are listed, also     *)
(* when a bare named middleware is the reference of other modifications.   *)
C29_BareKeepListedOrder ==
    (pc = "modified" /\ ~mOut.threw) =>
        \A i, j \in DOMAIN mIn.mods :
            (/\ i < j
             /\ mIn.mods[i].kind = "bare"
             /\ mIn.mods[j].kind = "bare"
             /\ mIn.mods[i].mw \in Range(mOut.list)
             /\ mIn.mods[j].mw \in Range(mOut.list)) =>
                PositionIn(mOut.list, mIn.mods[i].mw) < PositionIn(mOut.list, mIn.mods[j].mw)

(* C30: the modifications are applied in descending order of weight, and   *)
(* those of equal weight in the order in which they are listed.            *)
C30_DescendingWeightStable ==
    LET ws == Weights(mIn.heap, mIn.mods)
    IN  (pc = "modified" /\ \A i \in DOMAIN ws : ws[i] # Diverges) =>
            \A a, b \in DOMAIN Applied :
                a < b =>
                    /\ ws[Applied[a]] >= ws[Applied[b]]
                    /\ ws[Applied[a]] = ws[Applied[b]] => Applied[a] < Applied[b]

----------------------------------------------------------------------------
(* The resolver on modifications that refer to each other: up to MaxGraph  *)
(* modifications, the one listed at position j carrying the middleware     *)
(* named ModName(j) when it is a pair, each referring to the base          *)
(* middleware or to the name of any modification of the list, itself       *)
(* included.  A reference to a position ahead and one to a position behind *)
(* are both drawn, so every listing order of a dependency is there.        *)

GraphRefs(n) == {BaseName(1)} \cup {ModName(k) : k \in 1..n}

GraphTemplates(n) ==
    {TBare(TRUE)}
        \cup {TRel(TRUE, "after", r) : r \in GraphRefs(n)}
        \cup {TRel(FALSE, "before", r) : r \in GraphRefs(n)}
        \cup {TSkip(r) : r \in GraphRefs(n)}

InitGraph ==
    /\ \E nb \in 0..1, n \in 1..MaxGraph :
          \E tpl \in [1..n -> GraphTemplates(n)] :
              mIn = [heap |-> ResolverHeap(nb, FALSE, tpl),
                     list |-> [i \in 1..nb |-> i],
                     mods |-> ModsOf(nb, tpl)]
    /\ mOut = NoPlan
    /\ pc = "modify"
    /\ base = <<>>
    /\ heap = <<>>
    /\ heap0 = <<>>
    /\ plugins = <<>>
    /\ nextId = 0
    /\ nreq = 0
    /\ rid = undefined
    /\ mods = <<>>
    /\ input = Absent
    /\ output = Absent
    /\ sequence = <<>>
    /\ middleware = <<>>
    /\ threw = FALSE
    /\ requestError = NoError
    /\ result = Pending
    /\ events = <<>>
    /\ calls = <<>>
    /\ catches = <<>>
    /\ pipelineName = PipelineName
    /\ parent = NoParent
    /\ second = <<>>
    /\ outer = NoOuter
    /\ parked = NoParked
    /\ flight = NoFlight

SpecGraph == InitGraph /\ [][NextResolver]_vars

Acyclic == \A i \in DOMAIN mIn.mods : Weights(mIn.heap, mIn.mods)[i] # Diverges

(* The turn of the modification listed at position i. *)
TurnOf(i) == CHOOSE k \in DOMAIN Applied : Applied[k] = i

(* m, listed at i, refers to the name that the modification listed at j    *)
(* brings into the list.                                                   *)
RefersTo(i, j) ==
    /\ i # j
    /\ isRelative(mIn.mods[i])
    /\ mIn.mods[j].kind # "skip"
    /\ nameOfMod(mIn.heap, mIn.mods[j]) # undefined
    /\ nameOfMod(mIn.heap, mIn.mods[j]) = mIn.mods[i].ref

MoveTo(ms, i, p) ==
    SpliceIn(SubSeq(ms, 1, i - 1) \o SubSeq(ms, i + 1, Len(ms)), p - 1, ms[i])

(* What the caller observes of a call of modify. *)
Outcome(plan) == [threw |-> plan.threw, error |-> plan.error,
                  list |-> IF plan.threw THEN <<>> ELSE plan.list]

(* C32: a skip is a dependent of the name it refers to: it is applied      *)
(* after the modification of the request that brings that name in,         *)
(* wherever it is listed, and what the request resolves to does not        *)
(* depend on the position at which the skip is listed.                     *)
C32_SkipFollowsItsTarget ==
    (pc = "modified" /\ Acyclic) =>
        \A i \in DOMAIN mIn.mods :
            mIn.mods[i].kind = "skip" =>
                /\ \A j \in DOMAIN mIn.mods :
                      (/\ mIn.mods[j].kind # "skip"
                       /\ nameOfMod(mIn.heap, mIn.mods[j]) = mIn.mods[i].ref)
                          => TurnOf(j) < TurnOf(i)
                /\ \A p \in DOMAIN mIn.mods :
                      Outcome(modify(mIn.heap, mIn.list, MoveTo(mIn.mods, i, p)))
                          = Outcome(mOut)

----------------------------------------------------------------------------
(* The pipeline connect was called on, used again: after the request of    *)
(* "test" settled, the second pipeline itself is called, without           *)
(* modifications, and its request handler with an input.                   *)

CallOriginalPipeline ==
    /\ pc = "settled"
    /\ outer.phase = "done"
    /\ outer' = [outer EXCEPT !.phase = "original"]
    /\ base' = second
    /\ pipelineName' = SecondPipelineName
    /\ parent' = NoParent
    /\ rid' = uuid(IdBlock(nreq) + 1)
    /\ nextId' = IdBlock(nreq) + 1
    /\ mods' = <<>>
    /\ pc' = "original"
    /\ input' = Absent
    /\ output' = Absent
    /\ sequence' = <<>>
    /\ middleware' = <<>>
    /\ threw' = FALSE
    /\ requestError' = NoError
    /\ result' = Pending
    /\ events' = <<>>
    /\ calls' = <<>>
    /\ catches' = <<>>
    /\ mIn' = NoCall
    /\ mOut' = NoPlan
    /\ UNCHANGED <<plugins, heap, heap0, nreq, second, concurrency>>

CallOriginalRequest(in) ==
    /\ pc = "original"
    /\ events' = notifyWithoutOutput(<<>>, plugins, requestBegin(in))
    /\ input' = freezeUp(in)
    /\ output' = freezeUp(in)
    /\ threw' = notifyWithoutOutputThrew(plugins, requestBegin(in))
    /\ result' = beforeTry(in)
    /\ pc' = IF notifyWithoutOutputThrew(plugins, requestBegin(in)) THEN "settled"
             ELSE "resolve"
    /\ UNCHANGED <<base, plugins, heap, heap0, nextId, nreq, rid, mods, sequence,
                   middleware, requestError, calls, catches, mIn, mOut, connection,
                   concurrency>>

NextOriginal ==
    \/ \E in \in Inputs : CallRequest(in)
    \/ Resolve
    \/ \E beh \in Behaviours : Invoke(beh)
    \/ \E tpl \in ConnectMods : Enter(tpl)
    \/ CallConnected
    \/ InvokeContinuation
    \/ Return
    \/ Resume
    \/ Finally
    \/ CallOriginalPipeline
    \/ \E in \in Inputs : CallOriginalRequest(in)

SpecOriginal == InitConnect /\ [][NextOriginal]_vars

(* The list the second pipeline was built on. *)
OriginalSecond ==
    SelectSeq([o \in DOMAIN heap0 |-> o],
              LAMBDA o : \E i \in 1..MaxInner : heap0[o].h = SecondTag(i))

(* C33: connect leaves the pipeline it is called on as it was: its list    *)
(* has the same entries, its plugins are the same, and a request on it     *)
(* carries no parent id and never invokes () => next; the new pipeline     *)
(* runs on that list followed by the one middleware () => next.            *)
C33_ConnectLeavesOriginal ==
    /\ second = OriginalSecond
    /\ \A o \in Range(second) : heap[o] = heap0[o]
    /\ (outer.phase = "awaiting") =>
          /\ base = Append(OriginalSecond, Continuation)
          /\ heap[Continuation] = FnCell(ContinuationTag)
          /\ \A o \in Range(second) : heap[o].h # ContinuationTag
          /\ parent = nextOf(outer.frame.rid)
    /\ (outer.phase = "original") =>
          /\ base = OriginalSecond
          /\ parent = NoParent
          /\ \A p \in Interceptors : \A i \in DOMAIN PluginEvents(p) :
                /\ PluginEvents(p)[i].prid = undefined
                /\ PluginEvents(p)[i].pipelineName = SecondPipelineName
          /\ \A i \in DOMAIN calls : calls[i].h # ContinuationTag
          /\ (pc = "settled" /\ \A i \in DOMAIN calls : calls[i].beh = "pass") =>
                [i \in DOMAIN calls |-> calls[i].obj] = OriginalSecond

(* After a connected request that went through () => next, a request on    *)
(* the second pipeline itself resolves having invoked its two middlewares  *)
(* and nothing else.                                                       *)
C33_Witness ==
    /\ outer.phase = "original"
    /\ outer.nextCalls = 1
    /\ pc = "settled"
    /\ result.status = "resolved"
    /\ Len(second) = 2
    /\ [i \in DOMAIN calls |-> calls[i].h] = <<SecondTag(1), SecondTag(2)>>
    /\ plugins # <<>>

(* C34: modify ends by returning a list or by throwing the not-found       *)
(* error, also on modifications that refer to each other in a cycle or to  *)
(* their own name.                                                         *)
C34_ModifyTerminates ==
    pc = "modified" =>
        \/ ~mOut.threw
        \/ \E i \in DOMAIN mIn.mods : mOut.error = NotFound(mIn.mods[i].ref)

(* C35: within a request every entry of the resolved list is invoked at   *)
(* most once and in the order of the list, however often the middlewares   *)
(* call next: the invocations are a subsequence of the resolved list, and  *)
(* there are never more of them than the list has entries.                 *)
C35_InvokedOnceInOrder ==
    /\ Len(calls) <= Len(mOut.list)
    /\ \A i \in DOMAIN calls : calls[i].obj \in Range(mOut.list)
    /\ \A i, j \in DOMAIN calls :
          i < j => PositionIn(mOut.list, calls[i].obj) < PositionIn(mOut.list, calls[j].obj)
    /\ (pc \in {"finally", "settled"} /\ ~threw /\ calls # <<>>) => middleware = <<>>

(* Of three middlewares the first calls next twice: the second is never    *)
(* invoked, the third is, and the request resolves.                        *)
C35_Witness ==
    /\ pc = "settled"
    /\ result.status = "resolved"
    /\ Len(mOut.list) = 3
    /\ Len(calls) = 2
    /\ calls[1].beh = "twice"
    /\ calls[1].obj = mOut.list[1]
    /\ calls[2].obj = mOut.list[3]

(* C36: the request-end event says failure exactly when the promise of    *)
(* the request handler rejects and success exactly when it resolves,       *)
(* whatever value a middleware throws, a falsy one included.               *)
C36_RequestEndStatusMatchesPromise ==
    pc = "settled" =>
        \A p \in Interceptors : \A i \in DOMAIN PluginEvents(p) :
            PluginEvents(p)[i].type = "request-end" =>
                /\ (PluginEvents(p)[i].status = "failure") <=> (result.status = "rejected")
                /\ (PluginEvents(p)[i].status = "success") <=> (result.status = "resolved")

(* The handler of the invocation c threw. *)
HandlerThrew(c) == IF c.beh = "write" THEN ~c.wrote ELSE Throws(c.beh)

(* The invocation-end events plugin p received for the invocation iid. *)
EndsOf(p, iid) ==
    SelectSeq(PluginEvents(p), LAMBDA e : e.type = "invocation-end" /\ e.iid = iid)

(* C37: for each iid a plugin receives at most one invocation-end event,   *)
(* and its status is the outcome of the middleware's handler, also when a  *)
(* plugin throws while it handles invocation-begin or the successful       *)
(* invocation-end.                                                         *)
C37_OneInvocationEndPerIid ==
    \A p \in Interceptors : \A k \in DOMAIN calls :
        /\ Len(EndsOf(p, calls[k].iid)) <= 1
        /\ calls[k].ran =>
              \A i \in DOMAIN EndsOf(p, calls[k].iid) :
                  (EndsOf(p, calls[k].iid)[i].status = "failure") <=> HandlerThrew(calls[k])

(* The positions, among the events plugin p received, of the events of    *)
(* the connected request, and of the invocation events of the linking      *)
(* middleware.                                                             *)
ConnectedAt(p) ==
    {i \in DOMAIN PluginEvents(p) : PluginEvents(p)[i].pipelineName = SecondPipelineName}

LinkEventAt(p, type) ==
    {i \in DOMAIN PluginEvents(p) :
        /\ PluginEvents(p)[i].type = type
        /\ PluginEvents(p)[i].pipelineName = PipelineName
        /\ outer.phase # "none"
        /\ PluginEvents(p)[i].iid = outer.iid}

(* C38: every event of the request on the connected pipeline, from its     *)
(* request-begin to its request-end, is delivered after the               *)
(* invocation-begin of the linking middleware and before its               *)
(* invocation-end, and the invocation-begin of the middleware that follows *)
(* the linking one only after the connected request-end.                   *)
C38_ConnectedEventsNested ==
    \A p \in Interceptors :
        LET es == PluginEvents(p)
        IN  /\ \A b \in ConnectedAt(p) :
                  /\ \E i \in LinkEventAt(p, "invocation-begin") : i < b
                  /\ \A i \in LinkEventAt(p, "invocation-end") : b < i
            /\ \A i \in LinkEventAt(p, "invocation-end") :
                  /\ ConnectedAt(p) # {}
                  /\ \A b \in ConnectedAt(p) :
                        es[b].type = "request-begin" <=> (b - 1) \notin ConnectedAt(p)
                  /\ \A b \in ConnectedAt(p) :
                        es[b].type = "request-end" <=> (b + 1) \notin ConnectedAt(p)
            /\ \A a \in DOMAIN es, i \in LinkEventAt(p, "invocation-begin") :
                  (/\ a > i
                   /\ es[a].pipelineName = PipelineName
                   /\ es[a].type = "invocation-begin")
                      => \E e \in ConnectedAt(p) : e < a /\ es[e].type = "request-end"

(* The linking middleware stands between two others and the connected     *)
(* pipeline has two middlewares: the plugin receives six events of the     *)
(* connected request, then the invocation-end of the linking middleware,   *)
(* then the invocation-begin of the third middleware.                      *)
C38_Witness ==
    /\ outer.phase = "done"
    /\ pc = "settled"
    /\ result.status = "resolved"
    /\ plugins = <<"mute", "observe">>
    /\ Len(base) = 3
    /\ Len(second) = 2
    /\ Len(calls) = 3
    /\ Cardinality(ConnectedAt(2)) = 6
    /\ \E i \in LinkEventAt(2, "invocation-end") :
          /\ (i - 1) \in ConnectedAt(2)
          /\ PluginEvents(2)[i + 1].type = "invocation-begin"
          /\ PluginEvents(2)[i + 1].name = BaseName(3)

(* A middleware of the connected pipeline returned without calling next,   *)
(* and the connected request resolved.                                     *)
ConnectedChainStops ==
    /\ outer.phase \in {"returned", "done"}
    /\ outer.settled.status = "resolved"
    /\ \E k \in DOMAIN outer.inner.calls :
          outer.inner.calls[k].ran /\ outer.inner.calls[k].beh = "stop"

(* C39: when a middleware of the connected pipeline returns without        *)
(* calling next, () => next is never invoked, the cursor of the awaiting   *)
(* request is not advanced, and its chain ends when the linking            *)
(* middleware returns: no further middleware of it is invoked and the      *)
(* request resolves to what the linking middleware returned.               *)
C39_StoppedConnectedChainEndsBoth ==
    ConnectedChainStops =>
        /\ outer.nextCalls = 0
        /\ \A k \in DOMAIN outer.inner.calls : outer.inner.calls[k].h # ContinuationTag
        /\ outer.phase = "returned" =>
              /\ middleware = <<>>
              /\ sequence = SubSeq(base, LinkAt + 1, Len(base))
        /\ outer.phase = "done" =>
              /\ LinkCall = Len(calls)
              /\ pc \in {"finally", "settled"}
              /\ \A i \in (LinkAt + 1)..Len(base) : InvocationsOf(base[i]) = {}
              /\ pc = "settled" =>
                    /\ result.status = "resolved"
                    /\ result.value.data =
                          TracedBy(outer.settled.value.data, outer.name, Len(plugins))

(* The first of two connected middlewares stops; the linking middleware    *)
(* has one middleware ahead of it and two behind, which are not invoked.   *)
C39_Witness ==
    /\ outer.phase = "done"
    /\ pc = "settled"
    /\ ConnectedChainStops
    /\ Len(second) = 2
    /\ Len(outer.inner.calls) = 1
    /\ Len(base) = 4
    /\ LinkAt = 2
    /\ Len(calls) = 2
    /\ result.status = "resolved"
    /\ result.value.data = <<"x", BaseTag(1), SecondTag(1)>>

(* C40: on a connected pipeline called with bare modifications, every      *)
(* middleware of the resolved list, the appended ones included, is invoked *)
(* when each middleware calls next exactly once.                           *)
C40_AppendedOnConnectedInvoked ==
    (/\ outer.phase \in {"returned", "done"}
     /\ outer.settled.status = "resolved"
     /\ Len(outer.inner.plan.list) > Len(second) + 1
     /\ \A k \in DOMAIN outer.inner.calls :
           outer.inner.calls[k].beh \in {"pass", "continue"}) =>
        [k \in DOMAIN outer.inner.calls |-> outer.inner.calls[k].obj]
            = outer.inner.plan.list

====
